---- MODULE Spec2Model ----
(***************************************************************************)
(* State-machine model of the MAHORAGA default strategy:                   *)
(*   - ValidTickerCache (helpers/crypto.ts) and the validation steps of the*)
(*     Reddit and SEC gatherers,                                           *)
(*   - the Twitter read budget and lookups (gatherers/crypto.ts),          *)
(*   - analyzeStaleness (rules/staleness.ts), selectExits (rules/entries.ts). *)
(* Asynchronous functions are cut at their awaits: the code between two    *)
(* awaits runs as one step (single-threaded JavaScript), several calls may *)
(* be suspended at an await at the same time.                              *)
(***************************************************************************)
EXTENDS Integers, Sequences, FiniteSets, TLC

VARIABLES
    now,                 \* Date.now(), in milliseconds
    secTickers,          \* ValidTickerCache.secTickers: Null or a set of symbols
    lastSecRefresh,      \* ValidTickerCache.lastSecRefresh
    alpacaCache,         \* ValidTickerCache.alpacaCache: symbol -> Undefined | BOOLEAN
    getAssetCalls,       \* number of alpaca.trading.getAsset(s) calls issued, per symbol
    caller,              \* the calls into the ticker cache that are suspended at an await
    returned,            \* the operation that returned last, its argument and its result
    env,                 \* ctx.env: whether TWITTER_BEARER_TOKEN is set
    state,               \* ctx.state: the key-value store of the strategy
    lookup,              \* the Twitter lookups that are suspended at their fetch
    answered,            \* the Twitter lookup that returned last, its exit and its value
    config,              \* ctx.config: the thresholds of the exit and staleness rules
    positions,           \* the held positions handed to selectExits
    positionEntries,     \* ctx.positionEntries: symbol -> PositionEntry
    staleArgs,           \* the arguments of a direct analyzeStaleness call
    rules,               \* the rule evaluation: not run yet, or its result
    research,            \* the ResearchResult list handed to selectEntries
    account,             \* the Account handed to selectEntries
    candidates,          \* the BuyCandidate list selectEntries returned
    gather,              \* the gather run: its gatherer, its position, its sub-units
    signals,             \* the Signal list of the gather run
    logs,                \* the ctx.log lines of the gather run
    companyToTickerCache,\* part_000 companyToTickerCache: normalized name -> ticker | null
    extraction,          \* the extractTickers call: its arguments and its result
    trading,             \* the runCryptoTrading invocation: its position and its orders
    worker               \* the worker's fetch handler: the request and its outcome

tickerVars == <<secTickers, lastSecRefresh, alpacaCache, getAssetCalls, caller, returned>>

twitterVars == <<env, state, lookup, answered>>

entryVars == <<research, account, candidates>>

rulesVars == <<config, positions, positionEntries, staleArgs, rules, entryVars>>

gatherVars == <<gather, signals, logs, companyToTickerCache>>

auxVars == <<extraction, trading, worker>>

vars == <<now, tickerVars, twitterVars, rulesVars, gatherVars, auxVars>>

----------------------------------------------------------------------------
(* Bounds of the model *)

\* days covered by the clock
MaxDays == 2
\* millisecond offsets around each day boundary
MaxOffset == 1
\* calls that can be suspended at an await at the same time
NumCallers == 2
\* positions handed to one selectExits call
MaxPositions == 2
\* research results handed to one selectEntries call
MaxResearch == 5
\* sub-units (trending symbols, crypto symbols, filings) of one gather run
MaxUnits == 2
\* reads spent in a fresh budget window before the lookups stop
MaxReads == 2
\* hold times of a direct analyzeStaleness call, in steps of 12 hours
MaxHoldSteps == 5

----------------------------------------------------------------------------
(* Values *)

Null == "null"
Undefined == "undefined"

ONE_DAY_MS == 86400000
SEC_REFRESH_INTERVAL_MS == 24 * 60 * 60 * 1000

\* The instants the clock can show: a little before, at and after whole days.
TimePoints == {(d + 1) * ONE_DAY_MS + o : d \in 1..MaxDays, o \in 0..MaxOffset}

\* Ticker strings as they arrive from the feeds, in either case.
RawSymbols == {"GME", "gme"}

\* String.prototype.toUpperCase on the ticker strings of the model.
ToUpperCase(s) == CASE s = "gme" -> "GME"
                    [] s = "xyz" -> "XYZ"
                    [] s = "zzzz" -> "ZZZZ"
                    [] s = "btc/usd" -> "BTC/USD"
                    [] s = "btcusd" -> "BTCUSD"
                    [] OTHER -> s

UpperSymbols == {ToUpperCase(s) : s \in RawSymbols}

Callers == 1..NumCallers

\* A caller that is not inside a call.
IdleCall == [pc |-> "idle", op |-> "none", symbol |-> "none"]

\* The record of a return: the operation, its argument, the value or exit taken.
Return(op, symbol, ret) == [op |-> op, symbol |-> symbol, ret |-> ret]

----------------------------------------------------------------------------
(* ValidTickerCache: state and synchronous methods *)

\* private secTickers: Set<string> | null = null
NullSecTickers == [isNull |-> TRUE, tickers |-> {}]
LoadedSecTickers(set) == [isNull |-> FALSE, tickers |-> set]

\* Map.prototype.set
MapSet(m, k, v) == [x \in (DOMAIN m) \cup {k} |-> IF x = k THEN v ELSE m[x]]

\* The results of the ticker-cache operations, as the calls record them.
BoolRet(b) == IF b THEN "true" ELSE "false"

\* isKnownSecTicker(symbol): this.secTickers?.has(symbol.toUpperCase()) ?? false
isKnownSecTicker(symbol) ==
    IF secTickers.isNull THEN FALSE ELSE ToUpperCase(symbol) \in secTickers.tickers

\* getCachedValidation(symbol): this.alpacaCache.get(symbol.toUpperCase())
getCachedValidation(symbol) ==
    IF ToUpperCase(symbol) \in DOMAIN alpacaCache
    THEN BoolRet(alpacaCache[ToUpperCase(symbol)])
    ELSE Undefined

\* The guard with its comparison inverted.
SecCacheFresh_Inverted ==
    ~secTickers.isNull /\ now - lastSecRefresh > SEC_REFRESH_INTERVAL_MS

\* refreshSecTickersIfNeeded, the guard of its early return
SecCacheFresh ==
    ~secTickers.isNull /\ now - lastSecRefresh < SEC_REFRESH_INTERVAL_MS

\* The test without its tradable conjunct.
IsValid_AnyAsset(asset) == asset # Null /\ asset # "throw"

\* validateWithAlpaca: asset !== null && asset.tradable
IsValid(asset) == asset # Null /\ asset = "tradable"

\* What alpaca.trading.getAsset can answer: an asset, null, or an exception.
AssetResponses == {"tradable", "untradable", Null, "throw"}

\* What the fetch of company_tickers.json can deliver: a transport exception, a
\* non-OK status, a body res.json() rejects, a body with an entry that has no
\* ticker string (e.ticker.toUpperCase() throws), or a directory of tickers.
SecResponses ==
    [kind : {"throw", "not_ok", "bad_json", "bad_entry"}, tickers : {{}}]
    \cup [kind : {"ok"}, tickers : SUBSET RawSymbols]

----------------------------------------------------------------------------
(* The clock *)

Tick ==
    /\ \E t \in TimePoints : t > now /\ now' = t
    /\ UNCHANGED <<tickerVars, twitterVars, rulesVars, gatherVars, auxVars>>

----------------------------------------------------------------------------
(* ValidTickerCache.refreshSecTickersIfNeeded *)

\* The call up to its first await: the early return, or the fetch is issued.
RefreshStart(p) ==
    /\ caller[p].pc = "idle"
    /\ IF SecCacheFresh
       THEN /\ returned' = Return("refresh", "none", "fresh")
            /\ UNCHANGED caller
       ELSE /\ caller' = [caller EXCEPT ![p] =
                   [pc |-> "fetch", op |-> "refresh", symbol |-> "none"]]
            /\ UNCHANGED returned
    /\ UNCHANGED <<now, secTickers, lastSecRefresh, alpacaCache, getAssetCalls,
                   twitterVars, rulesVars, gatherVars, auxVars>>

\* The call with a failed fetch clearing the set instead of keeping it.
RefreshResume_ClearOnFailure(p, r) ==
    /\ caller[p].pc = "fetch"
    /\ IF r.kind = "ok"
       THEN /\ secTickers' = LoadedSecTickers({ToUpperCase(t) : t \in r.tickers})
            /\ lastSecRefresh' = now
            /\ returned' = Return("refresh", "none", "replaced")
       ELSE /\ secTickers' = LoadedSecTickers({})
            /\ UNCHANGED lastSecRefresh
            /\ returned' = Return("refresh", "none",
                                  IF r.kind = "not_ok" THEN "not_ok" ELSE "caught")
    /\ caller' = [caller EXCEPT ![p] = IdleCall]
    /\ UNCHANGED <<now, alpacaCache, getAssetCalls, twitterVars, rulesVars, gatherVars, auxVars>>

\* The call after the fetch (and res.json()) settled with response r.
RefreshResume(p, r) ==
    /\ caller[p].pc = "fetch"
    /\ IF r.kind = "ok"
       THEN /\ secTickers' = LoadedSecTickers({ToUpperCase(t) : t \in r.tickers})
            /\ lastSecRefresh' = now
            /\ returned' = Return("refresh", "none", "replaced")
       ELSE /\ UNCHANGED <<secTickers, lastSecRefresh>>
            /\ returned' = Return("refresh", "none",
                                  IF r.kind = "not_ok" THEN "not_ok" ELSE "caught")
    /\ caller' = [caller EXCEPT ![p] = IdleCall]
    /\ UNCHANGED <<now, alpacaCache, getAssetCalls, twitterVars, rulesVars, gatherVars, auxVars>>

----------------------------------------------------------------------------
(* ValidTickerCache.setCachedValidation and validateWithAlpaca *)

\* setCachedValidation(symbol, isValid)
SetCachedValidation(symbol, isValid) ==
    /\ alpacaCache' = MapSet(alpacaCache, ToUpperCase(symbol), isValid)
    /\ UNCHANGED <<now, secTickers, lastSecRefresh, getAssetCalls, caller, returned,
                   twitterVars, rulesVars, gatherVars, auxVars>>

\* validateWithAlpaca without the look-up of the cache: it always calls getAsset.
ValidateBegin_NoCacheLookup(p, op, symbol) ==
    /\ getAssetCalls' = [getAssetCalls EXCEPT ![ToUpperCase(symbol)] = @ + 1]
    /\ caller' = [caller EXCEPT ![p] =
           [pc |-> "getAsset", op |-> op, symbol |-> symbol]]
    /\ UNCHANGED returned

\* validateWithAlpaca(symbol) up to its await, entered by operation op: the cached
\* value is returned, or alpaca.trading.getAsset(upper) is called.
ValidateBegin(p, op, symbol) ==
    LET upper == ToUpperCase(symbol) IN
    IF upper \in DOMAIN alpacaCache
    THEN /\ returned' = Return(op, symbol, BoolRet(alpacaCache[upper]))
         /\ UNCHANGED <<caller, getAssetCalls>>
    ELSE /\ getAssetCalls' = [getAssetCalls EXCEPT ![upper] = @ + 1]
         /\ caller' = [caller EXCEPT ![p] =
                [pc |-> "getAsset", op |-> op, symbol |-> symbol]]
         /\ UNCHANGED returned

\* A direct call of validateWithAlpaca(symbol, alpaca).
ValidateStart(p, symbol) ==
    /\ caller[p].pc = "idle"
    /\ ValidateBegin(p, "validate", symbol)
    /\ UNCHANGED <<now, secTickers, lastSecRefresh, alpacaCache, twitterVars, rulesVars,
                   gatherVars, auxVars>>

\* The result of the validateWithAlpaca call of p whose getAsset settled with asset.
ValidatedAs(asset) == IF asset = "throw" THEN FALSE ELSE IsValid(asset)

\* The rest of validateWithAlpaca once getAsset settled: cache and return.
ValidateEnd(p, asset) ==
    /\ alpacaCache' = MapSet(alpacaCache, ToUpperCase(caller[p].symbol), ValidatedAs(asset))
    /\ returned' = Return(caller[p].op, caller[p].symbol, BoolRet(ValidatedAs(asset)))
    /\ caller' = [caller EXCEPT ![p] = IdleCall]

\* validateWithAlpaca after getAsset settled with asset: the result is cached and
\* returned (false when getAsset threw). It returns to the direct caller, or into
\* the gatherer's loop, which keeps the symbol ("true") or drops it ("false").
ValidateResume(p, asset) ==
    /\ caller[p].pc = "getAsset"
    /\ ValidateEnd(p, asset)
    /\ UNCHANGED <<now, secTickers, lastSecRefresh, getAssetCalls, twitterVars,
                   rulesVars, gatherVars, auxVars>>

----------------------------------------------------------------------------
(* The validation step of the gatherers, for one candidate symbol *)

\* gatherReddit, the body of the loop over tickerData for a ticker with at least
\* two mentions (the keys are upper-case: extractTickers upper-cases them). The
\* symbol is kept ("true": a Signal is pushed) or dropped ("false": continue).
RedditValidate(p, symbol) ==
    /\ caller[p].pc = "idle"
    /\ symbol \in UpperSymbols
    /\ IF ~isKnownSecTicker(symbol)
       THEN IF getCachedValidation(symbol) = "false"
            THEN /\ returned' = Return("reddit", symbol, "false")
                 /\ UNCHANGED <<caller, getAssetCalls>>
            ELSE IF getCachedValidation(symbol) = Undefined
                 THEN ValidateBegin(p, "reddit", symbol)
                 ELSE /\ returned' = Return("reddit", symbol, "true")
                      /\ UNCHANGED <<caller, getAssetCalls>>
       ELSE /\ returned' = Return("reddit", symbol, "true")
            /\ UNCHANGED <<caller, getAssetCalls>>
    /\ UNCHANGED <<now, secTickers, lastSecRefresh, alpacaCache, twitterVars, rulesVars,
                   gatherVars, auxVars>>

\* gatherSECFilings, the body of the loop over the feed entries once the company
\* name resolved to ticker (in the directory's spelling).
SecValidate(p, ticker) ==
    /\ caller[p].pc = "idle"
    /\ IF getCachedValidation(ticker) = "false"
       THEN /\ returned' = Return("sec", ticker, "false")
            /\ UNCHANGED <<caller, getAssetCalls>>
       ELSE IF getCachedValidation(ticker) = Undefined
            THEN ValidateBegin(p, "sec", ticker)
            ELSE /\ returned' = Return("sec", ticker, "true")
                 /\ UNCHANGED <<caller, getAssetCalls>>
    /\ UNCHANGED <<now, secTickers, lastSecRefresh, alpacaCache, twitterVars, rulesVars,
                   gatherVars, auxVars>>

----------------------------------------------------------------------------
(* Twitter: the daily read budget (gatherers/crypto.ts) *)

MAX_DAILY_READS == 200

\* gatherTwitterConfirmation: MIN_SENTIMENT_FOR_CONFIRMATION = 0.3. Sentiments are
\* counted in hundredths.
MIN_SENTIMENT_FOR_CONFIRMATION == 30

\* gatherTwitterConfirmation: CACHE_TTL_MS = 300_000
CACHE_TTL_MS == 300000

\* checkTwitterBreakingNews: MAX_NEWS_AGE_MS and BREAKING_THRESHOLD_MS
MAX_NEWS_AGE_MS == 1800000
BREAKING_THRESHOLD_MS == 600000

\* ctx.state.get(key) ?? dflt
StateGet(st, key, dflt) == IF key \in DOMAIN st THEN st[key] ELSE dflt

\* ctx.state.set(key, value)
StateSet(st, key, value) == MapSet(st, key, value)

\* The feature flag that ignores the credential.
isTwitterEnabled_Always == TRUE

\* isTwitterEnabled(ctx): !!ctx.env.TWITTER_BEARER_TOKEN
isTwitterEnabled == env.TWITTER_BEARER_TOKEN

\* The budget check that never starts a new window.
canSpendTwitterRead_NoReset(st, t) ==
    [state |-> st, ok |-> StateGet(st, "twitterDailyReads", 0) < MAX_DAILY_READS]

\* canSpendTwitterRead(ctx) on store st at instant t: the store it leaves (the
\* counter and the reset timestamp restarted when the stored timestamp is more
\* than a day old) and its answer.
canSpendTwitterRead(st, t) ==
    LET resetTime == StateGet(st, "twitterDailyReadReset", 0)
        st1 == IF t - resetTime > ONE_DAY_MS
               THEN StateSet(StateSet(st, "twitterDailyReads", 0),
                             "twitterDailyReadReset", t)
               ELSE st
    IN [state |-> st1, ok |-> StateGet(st1, "twitterDailyReads", 0) < MAX_DAILY_READS]

\* spendTwitterRead(ctx, count)
spendTwitterRead(st, count) ==
    StateSet(st, "twitterDailyReads", StateGet(st, "twitterDailyReads", 0) + count)

\* twitterSearchRecent up to its fetch, on store st: the store it leaves and
\* whether the fetch is issued (otherwise it returns []).
SearchBegin(st) ==
    IF ~isTwitterEnabled
    THEN [state |-> st, ok |-> FALSE]
    ELSE canSpendTwitterRead(st, now)

\* What the fetch of tweets/search/recent and res.json() can deliver: an
\* exception, a non-OK status, a body res.json() rejects, or a list of tweets.
\* A tweet of the model carries the sign of its keyword polarity, its weight
\* (author weight times engagement weight), its age when the response is read
\* and whether its text mentions one of the symbols asked for.
Tweets == [polarity : {-1, 0, 1}, weight : {0, 1}, age : {0, BREAKING_THRESHOLD_MS,
           MAX_NEWS_AGE_MS + 1}, mentions : BOOLEAN]

SearchFailures == [kind : {"throw", "not_ok", "bad_json"}, tweets : {<< >>}]

\* The return of a search that spends a read whatever the response.
SearchEnd_SpendOnEveryResponse(st, r) ==
    [state |-> spendTwitterRead(st, 1),
     tweets |-> IF r.kind = "ok" THEN r.tweets ELSE << >>]

\* twitterSearchRecent after its fetch settled with response r, on store st: the
\* store it leaves and the tweets it returns.
SearchEnd(st, r) ==
    IF r.kind = "ok"
    THEN [state |-> spendTwitterRead(st, 1), tweets |-> r.tweets]
    ELSE [state |-> st, tweets |-> << >>]

----------------------------------------------------------------------------
(* Twitter: gatherTwitterConfirmation *)

Abs(x) == IF x < 0 THEN -x ELSE x

BullishWeight(tw) == IF tw.polarity > 0 THEN tw.weight ELSE 0
BearishWeight(tw) == IF tw.polarity < 0 THEN tw.weight ELSE 0

RECURSIVE SumBullish(_)
\* bullish: the weights of the tweets of positive polarity
SumBullish(tweets) ==
    IF tweets = << >> THEN 0 ELSE BullishWeight(Head(tweets)) + SumBullish(Tail(tweets))

RECURSIVE SumBearish(_)
\* bearish: the weights of the tweets of negative polarity
SumBearish(tweets) ==
    IF tweets = << >> THEN 0 ELSE BearishWeight(Head(tweets)) + SumBearish(Tail(tweets))

RECURSIVE SumWeight(_)
\* totalWeight
SumWeight(tweets) ==
    IF tweets = << >> THEN 0 ELSE Head(tweets).weight + SumWeight(Tail(tweets))

\* The TwitterConfirmation built from a non-empty list of tweets. The sentiment
\* (bullish - bearish) / totalWeight is kept as numerator and denominator, 0 when
\* the total weight is 0; it is above 0.2 when 5 * numerator > denominator.
Confirmation(symbol, existingSentiment, tweets, t) ==
    LET bullish == SumBullish(tweets)
        bearish == SumBearish(tweets)
        totalWeight == SumWeight(tweets)
        num == IF totalWeight > 0 THEN bullish - bearish ELSE 0
        den == IF totalWeight > 0 THEN totalWeight ELSE 1
        twitterBullish == 5 * num > den
        twitterBearish == 5 * num < -den
        existingBullish == existingSentiment > 0
    IN [symbol |-> symbol,
        tweet_count |-> Len(tweets),
        sentiment |-> <<num, den>>,
        confirms_existing |-> (twitterBullish /\ existingBullish)
                              \/ (twitterBearish /\ ~existingBullish),
        timestamp |-> t]

\* One key for the confirmations of every symbol.
CacheKey_Shared(symbol) == "twitterConfirmation_"

\* `twitterConfirmation_${symbol}`
CacheKey(symbol) == "twitterConfirmation_" \o symbol

\* A lookup that is not running.
IdleLookup == [pc |-> "idle", op |-> "none", symbol |-> "none", existing |-> 0]

\* The record of a lookup's return: the exit taken and the value, as a sequence
\* (empty for null and for []).
Answer(op, symbol, exit, value) ==
    [op |-> op, symbol |-> symbol, exit |-> exit, value |-> value]

\* gatherTwitterConfirmation(ctx, symbol, existingSentiment) up to the fetch of
\* its search: one of the early returns, or the fetch is issued.
ConfirmStart(p, symbol, existingSentiment) ==
    /\ lookup[p].pc = "idle"
    /\ IF ~isTwitterEnabled
       THEN /\ answered' = Answer("confirm", symbol, "gate", << >>)
            /\ UNCHANGED <<state, lookup>>
       ELSE LET c1 == canSpendTwitterRead(state, now)
                cached == StateGet(c1.state, CacheKey(symbol), Undefined)
            IN IF ~c1.ok
               THEN /\ answered' = Answer("confirm", symbol, "gate", << >>)
                    /\ state' = c1.state
                    /\ UNCHANGED lookup
               ELSE IF Abs(existingSentiment) < MIN_SENTIMENT_FOR_CONFIRMATION
               THEN /\ answered' = Answer("confirm", symbol, "weak", << >>)
                    /\ state' = c1.state
                    /\ UNCHANGED lookup
               ELSE IF CacheKey(symbol) \in DOMAIN c1.state
                       /\ now - c1.state[CacheKey(symbol)].timestamp < CACHE_TTL_MS
               THEN /\ answered' = Answer("confirm", symbol, "cached",
                                          <<c1.state[CacheKey(symbol)]>>)
                    /\ state' = c1.state
                    /\ UNCHANGED lookup
               ELSE LET s2 == SearchBegin(c1.state)
                    IN /\ state' = s2.state
                       /\ IF s2.ok
                          THEN /\ lookup' = [lookup EXCEPT ![p] =
                                      [pc |-> "fetch", op |-> "confirm", symbol |-> symbol,
                                       existing |-> existingSentiment]]
                               /\ UNCHANGED answered
                          ELSE /\ answered' = Answer("confirm", symbol, "no_tweets", << >>)
                               /\ UNCHANGED lookup
    /\ UNCHANGED <<now, env, tickerVars, rulesVars, gatherVars, auxVars>>

\* gatherTwitterConfirmation after the search settled with response r.
ConfirmResume(p, r) ==
    /\ lookup[p].pc = "fetch"
    /\ lookup[p].op = "confirm"
    /\ LET s == SearchEnd(state, r)
           result == Confirmation(lookup[p].symbol, lookup[p].existing, s.tweets, now)
       IN IF Len(s.tweets) = 0
          THEN /\ state' = s.state
               /\ answered' = Answer("confirm", lookup[p].symbol, "no_tweets", << >>)
          ELSE /\ state' = StateSet(s.state, CacheKey(lookup[p].symbol), result)
               /\ answered' = Answer("confirm", lookup[p].symbol, "result", <<result>>)
    /\ lookup' = [lookup EXCEPT ![p] = IdleLookup]
    /\ UNCHANGED <<now, env, tickerVars, rulesVars, gatherVars, auxVars>>

----------------------------------------------------------------------------
(* Twitter: checkTwitterBreakingNews *)

\* An item flagged as breaking up to and including the threshold.
NewsItem_BreakingAtThreshold(tw) ==
    [age |-> tw.age, is_breaking |-> tw.age <= BREAKING_THRESHOLD_MS]

\* One item of the result: age_minutes is left out, is_breaking is kept.
NewsItem(tw) == [age |-> tw.age, is_breaking |-> tw.age < BREAKING_THRESHOLD_MS]

RECURSIVE NewsResults(_)
\* The loop over the tweets: those older than MAX_NEWS_AGE_MS and those that
\* mention none of the symbols are skipped.
NewsResults(tweets) ==
    IF tweets = << >> THEN << >>
    ELSE LET tw == Head(tweets)
         IN IF tw.age > MAX_NEWS_AGE_MS \/ ~tw.mentions
            THEN NewsResults(Tail(tweets))
            ELSE <<NewsItem(tw)>> \o NewsResults(Tail(tweets))

\* checkTwitterBreakingNews(ctx, symbols) up to the fetch of its search; nsymbols
\* is symbols.length.
NewsStart(p, nsymbols) ==
    /\ lookup[p].pc = "idle"
    /\ IF ~isTwitterEnabled
       THEN /\ answered' = Answer("news", "none", "gate", << >>)
            /\ UNCHANGED <<state, lookup>>
       ELSE LET c1 == canSpendTwitterRead(state, now)
            IN IF ~c1.ok \/ nsymbols = 0
               THEN /\ answered' = Answer("news", "none", "gate", << >>)
                    /\ state' = c1.state
                    /\ UNCHANGED lookup
               ELSE LET s2 == SearchBegin(c1.state)
                    IN /\ state' = s2.state
                       /\ IF s2.ok
                          THEN /\ lookup' = [lookup EXCEPT ![p] =
                                      [pc |-> "fetch", op |-> "news", symbol |-> "none",
                                       existing |-> 0]]
                               /\ UNCHANGED answered
                          ELSE /\ answered' = Answer("news", "none", "results", << >>)
                               /\ UNCHANGED lookup
    /\ UNCHANGED <<now, env, tickerVars, rulesVars, gatherVars, auxVars>>

\* checkTwitterBreakingNews after the search settled with response r.
NewsResume(p, r) ==
    /\ lookup[p].pc = "fetch"
    /\ lookup[p].op = "news"
    /\ LET s == SearchEnd(state, r)
       IN /\ state' = s.state
          /\ answered' = Answer("news", "none", "results", NewsResults(s.tweets))
    /\ lookup' = [lookup EXCEPT ![p] = IdleLookup]
    /\ UNCHANGED <<now, env, tickerVars, rulesVars, gatherVars, auxVars>>

\* The Twitter layer with nothing stored and no lookup made.
TwitterAtRest ==
    /\ state = << >>
    /\ lookup = [p \in Callers |-> IdleLookup]
    /\ answered = Answer("none", "none", "none", << >>)

----------------------------------------------------------------------------
(* rules/staleness.ts: analyzeStaleness *)

MS_PER_HOUR == 1000 * 60 * 60

\* Rational numbers <<numerator, denominator>> with a positive denominator, for
\* the scores and percentages the code computes in floating point.
RatInt(n) == <<n, 1>>
RatAdd(a, b) == <<a[1] * b[2] + b[1] * a[2], a[2] * b[2]>>
RatLeq(a, b) == a[1] * b[2] <= b[1] * a[2]
RatLess(a, b) == a[1] * b[2] < b[1] * a[2]
RatMin(a, b) == IF RatLeq(a, b) THEN a ELSE b

\* holdHours = (Date.now() - entry.entry_time) / (1000 * 60 * 60); the instants
\* of the rule specifications are whole hours, so the quotient is exact.
HoldHours(t, entry) == (t - entry.entry_time) \div MS_PER_HOUR

\* pnlPct = entry_price > 0 ? ((currentPrice - entry_price) / entry_price) * 100 : 0
PnlPct(currentPrice, entry) ==
    IF entry.entry_price > 0
    THEN <<(currentPrice - entry.entry_price) * 100, entry.entry_price>>
    ELSE RatInt(0)

\* The time-based points with the ramp starting at the entry instead of the
\* mid-hold threshold.
TimeScore_RampFromEntry(holdHours, cfg) ==
    IF holdHours >= 24 * cfg.stale_max_hold_days
    THEN RatInt(40)
    ELSE <<20 * holdHours, 24 * cfg.stale_max_hold_days>>

\* Time-based points (max 40); holdDays = holdHours / 24.
TimeScore(holdHours, cfg) ==
    IF holdHours >= 24 * cfg.stale_max_hold_days
    THEN RatInt(40)
    ELSE IF holdHours >= 24 * cfg.stale_mid_hold_days
    THEN <<20 * (holdHours - 24 * cfg.stale_mid_hold_days),
           24 * (cfg.stale_max_hold_days - cfg.stale_mid_hold_days)>>
    ELSE RatInt(0)

\* The price-action points without the cap of 30 on a loss.
PriceScore_Uncapped(holdHours, pnlPct, cfg) ==
    IF RatLess(pnlPct, RatInt(0))
    THEN <<-3 * pnlPct[1], pnlPct[2]>>
    ELSE IF RatLess(pnlPct, RatInt(cfg.stale_mid_min_gain_pct))
            /\ holdHours >= 24 * cfg.stale_mid_hold_days
    THEN RatInt(15)
    ELSE RatInt(0)

\* Price-action points (max 30).
PriceScore(holdHours, pnlPct, cfg) ==
    IF RatLess(pnlPct, RatInt(0))
    THEN RatMin(RatInt(30), <<-3 * pnlPct[1], pnlPct[2]>>)
    ELSE IF RatLess(pnlPct, RatInt(cfg.stale_mid_min_gain_pct))
            /\ holdHours >= 24 * cfg.stale_mid_hold_days
    THEN RatInt(15)
    ELSE RatInt(0)

\* Social-volume points (max 30); stale_social_volume_decay is held in percent,
\* volumeRatio = entry_social_volume > 0 ? current / entry_social_volume : 1.
VolumeScore(currentSocialVolume, entry, cfg) ==
    LET volumeRatio == IF entry.entry_social_volume > 0
                       THEN <<currentSocialVolume, entry.entry_social_volume>>
                       ELSE RatInt(1)
    IN IF RatLeq(volumeRatio, <<cfg.stale_social_volume_decay, 100>>)
       THEN RatInt(30)
       ELSE IF RatLeq(volumeRatio, <<1, 2>>)
       THEN RatInt(15)
       ELSE RatInt(0)

\* isStale decided by the score alone.
IsStale_ScoreOnly(stalenessScore, holdHours, pnlPct, cfg) ==
    RatLeq(RatInt(70), stalenessScore)

\* isStale = stalenessScore >= 70 ||
\*           (holdDays >= stale_max_hold_days && pnlPct < stale_min_gain_pct)
IsStale(stalenessScore, holdHours, pnlPct, cfg) ==
    \/ RatLeq(RatInt(70), stalenessScore)
    \/ /\ holdHours >= 24 * cfg.stale_max_hold_days
       /\ RatLess(pnlPct, RatInt(cfg.stale_min_gain_pct))

\* A StalenessResult; the reason is kept without the numbers formatted into it.
StalenessResult(isStale, reason, score) ==
    [isStale |-> isStale, reason |-> reason, staleness_score |-> score]

\* analyzeStaleness without the floor on the hold time.
analyzeStaleness_NoMinHold(t, currentPrice, currentSocialVolume, entry, cfg) ==
    IF entry = << >>
    THEN StalenessResult(FALSE, "No entry data", RatInt(0))
    ELSE LET e == entry[1]
             holdHours == HoldHours(t, e)
             pnlPct == PnlPct(currentPrice, e)
             stalenessScore ==
                 RatMin(RatInt(100),
                        RatAdd(RatAdd(TimeScore(holdHours, cfg),
                                      PriceScore(holdHours, pnlPct, cfg)),
                               VolumeScore(currentSocialVolume, e, cfg)))
             isStale == IsStale(stalenessScore, holdHours, pnlPct, cfg)
         IN StalenessResult(isStale, IF isStale THEN "Staleness score" ELSE "OK",
                            stalenessScore)

\* analyzeStaleness(_symbol, currentPrice, currentSocialVolume, entry, config) at
\* instant t; entry is << >> when undefined, <<PositionEntry>> otherwise.
analyzeStaleness(t, currentPrice, currentSocialVolume, entry, cfg) ==
    IF entry = << >>
    THEN StalenessResult(FALSE, "No entry data", RatInt(0))
    ELSE LET e == entry[1]
             holdHours == HoldHours(t, e)
             pnlPct == PnlPct(currentPrice, e)
             stalenessScore ==
                 RatMin(RatInt(100),
                        RatAdd(RatAdd(TimeScore(holdHours, cfg),
                                      PriceScore(holdHours, pnlPct, cfg)),
                               VolumeScore(currentSocialVolume, e, cfg)))
             isStale == IsStale(stalenessScore, holdHours, pnlPct, cfg)
         IN IF holdHours < cfg.stale_min_hold_hours
            THEN StalenessResult(FALSE, "Too early", RatInt(0))
            ELSE StalenessResult(isStale, IF isStale THEN "Staleness score" ELSE "OK",
                                 stalenessScore)

\* A direct call of analyzeStaleness with the arguments drawn at the start.
AnalyzeStaleness ==
    /\ rules.pc = "ready"
    /\ rules' = [pc |-> "done", exits |-> << >>,
                 staleness |-> <<analyzeStaleness(now, staleArgs.currentPrice,
                                                  staleArgs.currentSocialVolume,
                                                  staleArgs.entry, config)>>]
    /\ UNCHANGED <<now, tickerVars, twitterVars, config, positions, positionEntries,
                   staleArgs, entryVars, gatherVars, auxVars>>

----------------------------------------------------------------------------
(* rules/entries.ts: selectExits and checkOptionsExit *)

\* A SellCandidate; the reason is kept without the percentage formatted into it.
SellCandidate(symbol, reason) == [symbol |-> symbol, reason |-> reason]

\* plPct = (unrealized_pl / (market_value - unrealized_pl)) * 100 compared with a
\* threshold, in IEEE arithmetic: a zero cost basis gives an infinity of the sign
\* of unrealized_pl or NaN (every comparison false), a negative one flips the order.
PlPctGeq(pos, threshold) ==
    LET cost == pos.market_value - pos.unrealized_pl
    IN IF cost > 0 THEN 100 * pos.unrealized_pl >= threshold * cost
       ELSE IF cost < 0 THEN 100 * pos.unrealized_pl <= threshold * cost
       ELSE pos.unrealized_pl > 0

PlPctLeq(pos, threshold) ==
    LET cost == pos.market_value - pos.unrealized_pl
    IN IF cost > 0 THEN 100 * pos.unrealized_pl <= threshold * cost
       ELSE IF cost < 0 THEN 100 * pos.unrealized_pl >= threshold * cost
       ELSE pos.unrealized_pl < 0

\* checkOptionsExit(pos, ctx): << >> for null
checkOptionsExit(pos, cfg) ==
    IF ~cfg.options_enabled THEN << >>
    ELSE LET entryPrice == IF pos.avg_entry_price # 0 THEN pos.avg_entry_price
                           ELSE pos.current_price
             plPct == IF entryPrice > 0
                      THEN <<(pos.current_price - entryPrice) * 100, entryPrice>>
                      ELSE RatInt(0)
         IN IF RatLeq(plPct, RatInt(-cfg.options_stop_loss_pct))
            THEN <<SellCandidate(pos.symbol, "Options stop loss")>>
            ELSE IF RatLeq(RatInt(cfg.options_take_profit_pct), plPct)
            THEN <<SellCandidate(pos.symbol, "Options take profit")>>
            ELSE << >>

\* The staleness evaluation of selectExits for one position, on store st.
PositionStaleness(pos, st, entries, cfg, t) ==
    LET socialSnapshot == StateGet(st, "socialSnapshotCache", << >>)
        currentSocialVolume == IF pos.symbol \in DOMAIN socialSnapshot
                               THEN socialSnapshot[pos.symbol].volume ELSE 0
        entry == IF pos.symbol \in DOMAIN entries THEN <<entries[pos.symbol]>> ELSE << >>
    IN analyzeStaleness(t, pos.current_price, currentSocialVolume, entry, cfg)

\* The loop body without the continue after the take-profit and stop-loss pushes.
ExitStep_NoContinue(pos, st, entries, cfg, t) ==
    IF pos.asset_class = "us_option"
    THEN [exits |-> checkOptionsExit(pos, cfg), state |-> st]
    ELSE LET tp == IF PlPctGeq(pos, cfg.take_profit_pct)
                   THEN <<SellCandidate(pos.symbol, "Take profit")>> ELSE << >>
             sl == IF PlPctLeq(pos, -cfg.stop_loss_pct)
                   THEN <<SellCandidate(pos.symbol, "Stop loss")>> ELSE << >>
         IN IF cfg.stale_position_enabled
            THEN LET stalenessResult == PositionStaleness(pos, st, entries, cfg, t)
                     stalenessState == StateGet(st, "stalenessAnalysis", << >>)
                 IN [exits |-> tp \o sl \o
                               (IF stalenessResult.isStale
                                THEN <<SellCandidate(pos.symbol, "STALE")>> ELSE << >>),
                     state |-> StateSet(st, "stalenessAnalysis",
                                   MapSet(stalenessState, pos.symbol, stalenessResult))]
            ELSE [exits |-> tp \o sl, state |-> st]

\* The loop body without the continue after the options rule.
ExitStep_OptionsFallThrough(pos, st, entries, cfg, t) ==
    LET own == IF pos.asset_class = "us_option"
               THEN checkOptionsExit(pos, cfg) ELSE << >>
    IN IF PlPctGeq(pos, cfg.take_profit_pct)
       THEN [exits |-> own \o <<SellCandidate(pos.symbol, "Take profit")>>, state |-> st]
       ELSE IF PlPctLeq(pos, -cfg.stop_loss_pct)
       THEN [exits |-> own \o <<SellCandidate(pos.symbol, "Stop loss")>>, state |-> st]
       ELSE IF cfg.stale_position_enabled
       THEN LET stalenessResult == PositionStaleness(pos, st, entries, cfg, t)
                stalenessState == StateGet(st, "stalenessAnalysis", << >>)
            IN [exits |-> own \o (IF stalenessResult.isStale
                                  THEN <<SellCandidate(pos.symbol, "STALE")>>
                                  ELSE << >>),
                state |-> StateSet(st, "stalenessAnalysis",
                              MapSet(stalenessState, pos.symbol, stalenessResult))]
       ELSE [exits |-> own, state |-> st]

\* The loop body with the staleness check run whatever stale_position_enabled is.
ExitStep_StalenessUngated(pos, st, entries, cfg, t) ==
    IF pos.asset_class = "us_option"
    THEN [exits |-> checkOptionsExit(pos, cfg), state |-> st]
    ELSE IF PlPctGeq(pos, cfg.take_profit_pct)
    THEN [exits |-> <<SellCandidate(pos.symbol, "Take profit")>>, state |-> st]
    ELSE IF PlPctLeq(pos, -cfg.stop_loss_pct)
    THEN [exits |-> <<SellCandidate(pos.symbol, "Stop loss")>>, state |-> st]
    ELSE LET stalenessResult == PositionStaleness(pos, st, entries, cfg, t)
             stalenessState == StateGet(st, "stalenessAnalysis", << >>)
         IN [exits |-> IF stalenessResult.isStale
                       THEN <<SellCandidate(pos.symbol, "STALE")>> ELSE << >>,
             state |-> StateSet(st, "stalenessAnalysis",
                           MapSet(stalenessState, pos.symbol, stalenessResult))]

\* The body of the loop of selectExits for position pos on store st: the
\* candidates it pushes and the store it leaves.
ExitStep(pos, st, entries, cfg, t) ==
    IF pos.asset_class = "us_option"
    THEN [exits |-> checkOptionsExit(pos, cfg), state |-> st]
    ELSE IF PlPctGeq(pos, cfg.take_profit_pct)
    THEN [exits |-> <<SellCandidate(pos.symbol, "Take profit")>>, state |-> st]
    ELSE IF PlPctLeq(pos, -cfg.stop_loss_pct)
    THEN [exits |-> <<SellCandidate(pos.symbol, "Stop loss")>>, state |-> st]
    ELSE IF cfg.stale_position_enabled
    THEN LET stalenessResult == PositionStaleness(pos, st, entries, cfg, t)
             stalenessState == StateGet(st, "stalenessAnalysis", << >>)
         IN [exits |-> IF stalenessResult.isStale
                       THEN <<SellCandidate(pos.symbol, "STALE")>> ELSE << >>,
             state |-> StateSet(st, "stalenessAnalysis",
                           MapSet(stalenessState, pos.symbol, stalenessResult))]
    ELSE [exits |-> << >>, state |-> st]

RECURSIVE selectExits(_, _, _, _, _)
\* selectExits(ctx, positions, _account): the candidates in the order pushed and
\* the store left.
selectExits(poss, st, entries, cfg, t) ==
    IF poss = << >>
    THEN [exits |-> << >>, state |-> st]
    ELSE LET first == ExitStep(Head(poss), st, entries, cfg, t)
             rest == selectExits(Tail(poss), first.state, entries, cfg, t)
         IN [exits |-> first.exits \o rest.exits, state |-> rest.state]

\* One call of selectExits on the positions drawn at the start.
SelectExits ==
    /\ rules.pc = "ready"
    /\ LET r == selectExits(positions, state, positionEntries, config, now)
       IN /\ rules' = [pc |-> "done", exits |-> r.exits, staleness |-> << >>]
          /\ state' = r.state
    /\ UNCHANGED <<now, tickerVars, env, lookup, answered, config, positions,
                   positionEntries, staleArgs, entryVars, gatherVars, auxVars>>

----------------------------------------------------------------------------
(* rules/entries.ts: selectEntries *)

\* Confidences are held in hundredths (0.9 is 90), notionals as rationals.

RECURSIVE FilterBuy(_, _, _)
\* research.filter(verdict === "BUY" && confidence >= min_analyst_confidence)
\*         .filter(!heldSymbols.has(symbol))
FilterBuy(rs, heldSymbols, cfg) ==
    IF rs = << >> THEN << >>
    ELSE LET r == Head(rs)
             keep == /\ r.verdict = "BUY"
                     /\ r.confidence >= cfg.min_analyst_confidence
                     /\ r.symbol \notin heldSymbols
         IN (IF keep THEN <<r>> ELSE << >>) \o FilterBuy(Tail(rs), heldSymbols, cfg)

RECURSIVE InsertByConfidence(_, _)
\* r placed behind every element of the descending list whose confidence is at
\* least its own.
InsertByConfidence(r, sorted) ==
    IF sorted = << >> THEN <<r>>
    ELSE IF Head(sorted).confidence >= r.confidence
    THEN <<Head(sorted)>> \o InsertByConfidence(r, Tail(sorted))
    ELSE <<r>> \o sorted

\* The list left in the order given.
Unsorted(rs) == rs

RECURSIVE SortByConfidence(_)
\* .sort((a, b) => b.confidence - a.confidence): descending and stable.
SortByConfidence(rs) ==
    IF rs = << >> THEN << >>
    ELSE InsertByConfidence(rs[Len(rs)], SortByConfidence(SubSeq(rs, 1, Len(rs) - 1)))

\* The whole list instead of its first three elements.
Slice3_NoLimit(rs) == rs

\* buyResearch.slice(0, 3)
Slice3(rs) == SubSeq(rs, 1, IF Len(rs) < 3 THEN Len(rs) ELSE 3)

Min(a, b) == IF a <= b THEN a ELSE b

\* The notional with position_size_pct_of_cash used as configured.
Notional_NoSizeCap(cash, confidence, cfg) ==
    RatMin(<<cash * cfg.position_size_pct_of_cash * confidence, 10000>>,
           RatInt(cfg.max_position_value))

\* The notional with the size percentage capped at 40 instead of 20.
Notional_SizeCapForty(cash, confidence, cfg) ==
    RatMin(<<cash * Min(40, cfg.position_size_pct_of_cash) * confidence, 10000>>,
           RatInt(cfg.max_position_value))

\* sizePct = Math.min(20, position_size_pct_of_cash);
\* notional = Math.min(cash * (sizePct / 100) * confidence, max_position_value)
Notional(cash, confidence, cfg) ==
    RatMin(<<cash * Min(20, cfg.position_size_pct_of_cash) * confidence, 10000>>,
           RatInt(cfg.max_position_value))

\* shouldUseOptions decided without the entry quality.
ShouldUseOptions_AnyQuality(r, cfg) ==
    cfg.options_enabled /\ r.confidence >= cfg.options_min_confidence

\* shouldUseOptions
ShouldUseOptions(r, cfg) ==
    /\ cfg.options_enabled
    /\ r.confidence >= cfg.options_min_confidence
    /\ r.entry_quality = "excellent"

BuyCandidate(r, notional, useOptions) ==
    [symbol |-> r.symbol, confidence |-> r.confidence, reason |-> r.reasoning,
     notional |-> notional, useOptions |-> useOptions]

RECURSIVE EntryLoop_NoBreak(_, _, _, _, _)
\* The loop without the break at max_positions.
EntryLoop_NoBreak(rs, acc, held, cash, cfg) ==
    IF rs = << >> THEN acc
    ELSE LET r == Head(rs)
             notional == Notional(cash, r.confidence, cfg)
         IN IF RatLess(notional, RatInt(100))
            THEN EntryLoop_NoBreak(Tail(rs), acc, held, cash, cfg)
            ELSE EntryLoop_NoBreak(Tail(rs),
                     Append(acc, BuyCandidate(r, notional, ShouldUseOptions(r, cfg))),
                     held, cash, cfg)

RECURSIVE EntryLoop(_, _, _, _, _)
\* for (const r of buyResearch.slice(0, 3)) { ... } with acc the candidates
\* pushed so far and held = positions.length.
EntryLoop(rs, acc, held, cash, cfg) ==
    IF rs = << >> THEN acc
    ELSE IF held + Len(acc) >= cfg.max_positions THEN acc
    ELSE LET r == Head(rs)
             notional == Notional(cash, r.confidence, cfg)
         IN IF RatLess(notional, RatInt(100))
            THEN EntryLoop(Tail(rs), acc, held, cash, cfg)
            ELSE EntryLoop(Tail(rs),
                     Append(acc, BuyCandidate(r, notional, ShouldUseOptions(r, cfg))),
                     held, cash, cfg)

\* selectEntries(ctx, research, positions, account)
selectEntries(rs, poss, acct, cfg) ==
    LET heldSymbols == {poss[i].symbol : i \in 1..Len(poss)}
    IN IF Len(poss) >= cfg.max_positions THEN << >>
       ELSE EntryLoop(Slice3(SortByConfidence(FilterBuy(rs, heldSymbols, cfg))),
                      << >>, Len(poss), acct.cash, cfg)

\* One call of selectEntries on the inputs drawn at the start.
SelectEntries ==
    /\ rules.pc = "ready"
    /\ rules' = [pc |-> "done", exits |-> << >>, staleness |-> << >>]
    /\ candidates' = selectEntries(research, positions, account, config)
    /\ UNCHANGED <<now, tickerVars, twitterVars, config, positions, positionEntries,
                   staleArgs, research, account, gatherVars, auxVars>>

\* The configuration the specifications that do not evaluate rules hold.
BaseConfig ==
    [take_profit_pct |-> 10, stop_loss_pct |-> 5,
     stale_position_enabled |-> TRUE, options_enabled |-> FALSE,
     options_stop_loss_pct |-> 50, options_take_profit_pct |-> 100,
     stale_min_hold_hours |-> 24, stale_mid_hold_days |-> 1, stale_max_hold_days |-> 2,
     stale_mid_min_gain_pct |-> 5, stale_min_gain_pct |-> 3,
     stale_social_volume_decay |-> 30,
     max_positions |-> 2, min_analyst_confidence |-> 70,
     position_size_pct_of_cash |-> 25, max_position_value |-> 500,
     options_min_confidence |-> 75,
     crypto_enabled |-> FALSE, crypto_symbols |-> << >>,
     crypto_momentum_threshold |-> << >>,
     crypto_take_profit_pct |-> 10, crypto_stop_loss_pct |-> 5,
     crypto_max_position_value |-> 100]

NoStaleArgs == [currentPrice |-> 0, currentSocialVolume |-> 0, entry |-> << >>]

\* No research handed over, no candidate returned.
EntriesAtRest ==
    /\ research = << >>
    /\ account = [cash |-> 0]
    /\ candidates = << >>

\* No rule evaluated, nothing held.
RulesAtRest ==
    /\ EntriesAtRest
    /\ config = BaseConfig
    /\ positions = << >>
    /\ positionEntries = << >>
    /\ staleArgs = NoStaleArgs
    /\ rules = [pc |-> "ready", exits |-> << >>, staleness |-> << >>]

----------------------------------------------------------------------------
(* The gatherers: common parts *)

\* No fetchWithRetry call made: no response, no fetch, no sleep.
NoFetch == [res |-> Null, fetches |-> 0, sleeps |-> << >>]

\* No company name resolved yet.
NoResolution == [name |-> "none", fetched |-> FALSE, ticker |-> << >>]

\* No gather run started.
IdleGather ==
    [pc |-> "idle", source |-> "none", all |-> << >>, units |-> << >>,
     tickerData |-> << >>, keys |-> << >>, firstFailed |-> 0, fetch |-> NoFetch,
     resolve |-> NoResolution]

\* No ticker extracted, no crypto trading run, no request served.
AuxAtRest ==
    /\ extraction = [pc |-> "idle"]
    /\ trading = [pc |-> "idle"]
    /\ worker = [pc |-> "idle"]

GatherAtRest ==
    /\ gather = IdleGather
    /\ signals = << >>
    /\ logs = {}
    /\ companyToTickerCache = << >>

\* A Signal: the fields the gatherers differ in.
Signal(symbol, source, volume) == [symbol |-> symbol, source |-> source, volume |-> volume]

\* A ctx.log line.
LogLine(component, event, symbol) ==
    [component |-> component, event |-> event, symbol |-> symbol]

\* list.slice(0, 15)
Slice15(list) == SubSeq(list, 1, IF Len(list) < 15 THEN Len(list) ELSE 15)

\* The position of a run whose loop has rest left to process.
LoopPc(rest, pc) == IF rest = << >> THEN "returned" ELSE pc

\* A run is followed from its call to its return: it starts when none has.
CanStartGather == gather.pc = "idle"

\* A run of gatherer source over sub-units units, entering its loop at pc.
StartedGather(source, units, pc) ==
    [pc |-> LoopPc(units, pc), source |-> source, all |-> units, units |-> units,
     tickerData |-> << >>, keys |-> << >>, firstFailed |-> 0, fetch |-> NoFetch,
     resolve |-> NoResolution]

\* A run of gatherer source that returned before its loop.
ReturnedGather(source) ==
    [pc |-> "returned", source |-> source, all |-> << >>, units |-> << >>,
     tickerData |-> << >>, keys |-> << >>, firstFailed |-> 0, fetch |-> NoFetch,
     resolve |-> NoResolution]

\* The place in the list of the sub-unit the loop is at.
UnitIndex(g) == Len(g.all) - Len(g.units) + 1

\* The first sub-unit whose fetch failed, once the one at the head did or not.
FirstFailed(g, failed) ==
    IF failed /\ g.firstFailed = 0 THEN UnitIndex(g) ELSE g.firstFailed

\* A loop that a failed sub-unit ends: the run returns with the rest unprocessed.
Continue_AbortOnFailure(g, failed, pc) ==
    IF failed
    THEN [g EXCEPT !.pc = "returned", !.firstFailed = FirstFailed(g, failed)]
    ELSE [g EXCEPT !.pc = LoopPc(Tail(g.units), pc), !.units = Tail(@)]

\* The run after the turn for the sub-unit at the head, whose fetch failed or
\* not: in both cases the loop goes on to the next sub-unit at pc.
Continue(g, failed, pc) ==
    [g EXCEPT !.pc = LoopPc(Tail(g.units), pc), !.units = Tail(@),
              !.firstFailed = FirstFailed(g, failed)]

----------------------------------------------------------------------------
(* gatherers/stocktwits.ts: fetchWithRetry and gatherStockTwits *)

\* What one fetch of a StockTwits URL can meet.
FetchOutcomes == {"ok", "403", "500", "throw"}

\* The outcomes the successive fetches of one fetchWithRetry call would meet; no
\* fetch follows one that ended the call, and its place is filled with "ok".
AttemptLists ==
    {a \in [1..3 -> FetchOutcomes] :
        \A i \in 1..2 : a[i] \in {"ok", "500"} => a[i + 1] = "ok"}

\* A sleep of one second whatever the attempt.
Backoff_Constant(i) == 1000

\* The sleep after attempt i (0-based): 1000 * 2 ** i
Backoff(i) == 1000 * 2 ^ i

\* Every failed fetch is followed by a sleep and the next attempt.
Retried_AnyFailure(outcome) == outcome # "ok"

\* The failed fetches that are followed by a sleep and the next attempt: a 403
\* status and an exception.
Retried(outcome) == outcome = "403" \/ outcome = "throw"

RECURSIVE FetchLoop(_, _, _, _)
\* The loop of fetchWithRetry from attempt i (0-based) with the sleeps made so
\* far: the response ("ok" or Null), the fetches made, the sleeps in order.
FetchLoop(attempts, i, maxRetries, sleeps) ==
    IF i >= maxRetries
    THEN [res |-> Null, fetches |-> i, sleeps |-> sleeps]
    ELSE IF attempts[i + 1] = "ok"
    THEN [res |-> "ok", fetches |-> i + 1, sleeps |-> sleeps]
    ELSE IF Retried(attempts[i + 1])
    THEN FetchLoop(attempts, i + 1, maxRetries, Append(sleeps, Backoff(i)))
    ELSE [res |-> Null, fetches |-> i + 1, sleeps |-> sleeps]

\* fetchWithRetry(url, headers, log, sleep) with maxRetries = 3
fetchWithRetry(attempts) == FetchLoop(attempts, 0, 3, << >>)

\* The lines fetchWithRetry logs: one fetch_retry for a fetch that threw.
FetchRetryLogs(attempts) ==
    IF \E i \in 1..fetchWithRetry(attempts).fetches : attempts[i] = "throw"
    THEN {LogLine("StockTwits", "fetch_retry", "none")}
    ELSE {}

\* Symbols as the StockTwits payloads spell them.
TrendingSymbols == {"GME", "gme", "ZZZZ"}

\* The body of the trending response: json() throws, no symbols field, a list.
TrendingPayloads ==
    {[kind |-> "bad_json", symbols |-> << >>], [kind |-> "ok", symbols |-> << >>]}
    \cup {[kind |-> "ok", symbols |-> l] :
             l \in UNION {[1..n -> TrendingSymbols] : n \in 1..MaxUnits}}

\* The body of a stream response: json() throws, a malformed messages field, a
\* list of total messages.
StreamPayloads ==
    {[kind |-> "bad_json", total |-> 0], [kind |-> "malformed", total |-> 0]}
    \cup {[kind |-> "ok", total |-> t] : t \in {0, 4, 5}}

\* gatherStockTwits up to its loop: the trending fetch and its body.
StockTwitsStart(attempts, payload) ==
    /\ CanStartGather
    /\ signals' = << >>
    /\ IF fetchWithRetry(attempts).res = Null
       THEN /\ gather' = [ReturnedGather("stocktwits") EXCEPT
                              !.fetch = fetchWithRetry(attempts)]
            /\ logs' = FetchRetryLogs(attempts)
                        \cup {LogLine("StockTwits", "cloudflare_blocked", "none")}
       ELSE IF payload.kind = "bad_json"
       THEN /\ gather' = [ReturnedGather("stocktwits") EXCEPT
                              !.fetch = fetchWithRetry(attempts)]
            /\ logs' = FetchRetryLogs(attempts) \cup {LogLine("StockTwits", "error", "none")}
       ELSE /\ gather' = [StartedGather("stocktwits", Slice15(payload.symbols), "symbols")
                              EXCEPT !.fetch = fetchWithRetry(attempts)]
            /\ logs' = FetchRetryLogs(attempts)
    /\ UNCHANGED <<now, tickerVars, twitterVars, rulesVars, companyToTickerCache, auxVars>>

\* One turn of the loop over the trending symbols: the stream fetch, its body,
\* and the Signal pushed when there are at least 5 messages.
StockTwitsSymbol(attempts, payload) ==
    /\ gather.pc = "symbols"
    /\ LET sym == Head(gather.units) IN
       IF fetchWithRetry(attempts).res = Null
       THEN /\ gather' = [Continue(gather, TRUE, "symbols") EXCEPT
                              !.fetch = fetchWithRetry(attempts)]
            /\ logs' = logs \cup FetchRetryLogs(attempts)
            /\ UNCHANGED signals
       ELSE IF payload.kind # "ok"
       THEN /\ gather' = [Continue(gather, TRUE, "symbols") EXCEPT
                              !.fetch = fetchWithRetry(attempts)]
            /\ logs' = logs \cup FetchRetryLogs(attempts)
                             \cup {LogLine("StockTwits", "symbol_error", sym)}
            /\ UNCHANGED signals
       ELSE /\ gather' = [Continue(gather, FALSE, "symbols") EXCEPT
                              !.fetch = fetchWithRetry(attempts)]
            /\ signals' = IF payload.total >= 5
                          THEN Append(signals, Signal(sym, "stocktwits", payload.total))
                          ELSE signals
            /\ logs' = logs \cup FetchRetryLogs(attempts)
    /\ UNCHANGED <<now, tickerVars, twitterVars, rulesVars, companyToTickerCache, auxVars>>

----------------------------------------------------------------------------
(* gatherers/crypto.ts: gatherCrypto *)

DefaultCryptoSymbols == <<"BTC/USD", "ETH/USD", "SOL/USD">>

\* A crypto_symbols list in the spellings a configuration can have.
ConfiguredCryptoSymbols == <<"btc/usd", "BTCUSD", "BTC/USD">>

\* What getCryptoSnapshot gives: it throws, null, or a snapshot with the latest
\* trade price and the previous close (0 when absent).
CryptoSnapshots ==
    {[kind |-> "throw", price |-> 0, prevClose |-> 0],
     [kind |-> "null", price |-> 0, prevClose |-> 0]}
    \cup {[kind |-> "ok", price |-> pr, prevClose |-> pc] :
             pr \in {0, 105}, pc \in {0, 100}}

\* The snapshots of the momentum runs: previous close 100 or absent, and a latest
\* price that moves by -5, 1, 2, 4, 5 or 10 per cent, or is absent.
MomentumSnapshots ==
    {[kind |-> "throw", price |-> 0, prevClose |-> 0],
     [kind |-> "null", price |-> 0, prevClose |-> 0]}
    \cup {[kind |-> "ok", price |-> pr, prevClose |-> pc] :
             pr \in {0, 95, 101, 102, 104, 105, 110}, pc \in {0, 100}}

\* momentum = ((price - prevClose) / prevClose) * 100 as the fraction
\* <<numerator, denominator>>; the snapshots have a positive previous close.
Momentum(price, prevClose) == <<(price - prevClose) * 100, prevClose>>

\* config.crypto_momentum_threshold || 2.0, in per cent; the field is << >> when
\* undefined and <<t>> otherwise.
MomentumThreshold(cfg) ==
    IF cfg.crypto_momentum_threshold = << >> \/ cfg.crypto_momentum_threshold[1] = 0
    THEN 2
    ELSE cfg.crypto_momentum_threshold[1]

\* Variant of rawSentiment that scores a significant move in either direction.
rawSentiment_EitherDirection(momentum, threshold) ==
    IF Abs(momentum[1]) >= threshold * momentum[2]
    THEN IF Abs(momentum[1]) >= 5 * momentum[2]
         THEN <<1, 1>>
         ELSE <<Abs(momentum[1]), 5 * momentum[2]>>
    ELSE <<1, 10>>

\* rawSentiment as a fraction: min(|momentum| / 5, 1) for a significant bullish
\* move, 0.1 otherwise.
rawSentiment(momentum, threshold) ==
    LET hasSignificantMove == Abs(momentum[1]) >= threshold * momentum[2]
        isBullish == momentum[1] > 0
    IN IF hasSignificantMove /\ isBullish
       THEN IF Abs(momentum[1]) >= 5 * momentum[2]
            THEN <<1, 1>>
            ELSE <<Abs(momentum[1]), 5 * momentum[2]>>
       ELSE <<1, 10>>

\* The Signal gatherCrypto pushes, with its sentiment and momentum.
MomentumSignal(symbol, snapshot, cfg) ==
    LET momentum == Momentum(snapshot.price, snapshot.prevClose)
    IN [symbol |-> symbol, source |-> "crypto", volume |-> 0,
        sentiment |-> rawSentiment(momentum, MomentumThreshold(cfg)),
        momentum |-> momentum]

\* gatherCrypto up to its loop; config.crypto_symbols is << >> when undefined
\* and <<list>> otherwise.
CryptoStart ==
    /\ CanStartGather
    /\ signals' = << >>
    /\ IF ~config.crypto_enabled
       THEN /\ gather' = ReturnedGather("crypto")
            /\ logs' = {}
       ELSE LET symbols == IF config.crypto_symbols = << >>
                           THEN DefaultCryptoSymbols
                           ELSE config.crypto_symbols[1]
            IN /\ gather' = StartedGather("crypto", symbols, "coins")
               /\ logs' = IF symbols = << >>
                          THEN {LogLine("Crypto", "gathered_signals", "none")}
                          ELSE {}
    /\ UNCHANGED <<now, tickerVars, twitterVars, rulesVars, companyToTickerCache, auxVars>>

\* One turn of the loop over the crypto symbols.
CryptoSymbol(snapshot) ==
    /\ gather.pc = "coins"
    /\ LET symbol == Head(gather.units)
           kind == IF snapshot.kind = "ok"
                      /\ (snapshot.price = 0 \/ snapshot.prevClose = 0)
                   THEN "no_price" ELSE snapshot.kind
           next == Continue(gather, kind # "ok", "coins")
       IN /\ gather' = next
          /\ signals' = IF kind = "ok"
                        THEN Append(signals, MomentumSignal(symbol, snapshot, config))
                        ELSE signals
          /\ logs' = logs
                     \cup (IF kind = "throw"
                           THEN {LogLine("Crypto", "error", symbol)} ELSE {})
                     \cup (IF next.pc = "returned"
                           THEN {LogLine("Crypto", "gathered_signals", "none")} ELSE {})
    /\ UNCHANGED <<now, tickerVars, twitterVars, rulesVars, companyToTickerCache, auxVars>>

----------------------------------------------------------------------------
(* unnamed/part_000: gatherSECFilings *)

\* Company names of the feed entries, one of them in two spellings.
SecCompanies == {"GAMESTOP CORP", "GameStop Corp ", "ZZZZ INC"}

\* The name used as the cache key without normalization.
NormalizeName_Raw(companyName) == companyName

\* companyName.toUpperCase().trim() on the company names of the model.
NormalizeName(companyName) ==
    CASE companyName = "GameStop Corp " -> "GAMESTOP CORP"
      [] OTHER -> companyName

\* What the fetch of company_tickers.json and the match of the titles give to
\* resolveTickerFromCompanyName: an exception (of the fetch, of json() or of a
\* title that is no string), a non-OK status, or the ticker of the first
\* matching entry in the directory's spelling (<< >> when no title matches).
DirectoryResponses ==
    {[kind |-> "throw", ticker |-> << >>], [kind |-> "not_ok", ticker |-> << >>]}
    \cup {[kind |-> "ok", ticker |-> t] : t \in {<< >>, <<"GME">>, <<"gme">>, <<"ZZZZ">>}}

\* resolveTickerFromCompanyName(companyName) on cache, its fetch (when made)
\* answered by dir: the normalized name, whether the directory was fetched, the
\* ticker returned (<< >> for null) and the cache it leaves.
resolveTickerFromCompanyName(cache, companyName, dir) ==
    LET normalized == NormalizeName(companyName)
    IN IF normalized \in DOMAIN cache
       THEN [name |-> normalized, fetched |-> FALSE, ticker |-> cache[normalized],
             cache |-> cache]
       ELSE IF dir.kind = "ok"
       THEN [name |-> normalized, fetched |-> TRUE, ticker |-> dir.ticker,
             cache |-> MapSet(cache, normalized, dir.ticker)]
       ELSE [name |-> normalized, fetched |-> TRUE, ticker |-> << >>, cache |-> cache]

\* The 8-K feed: the fetch throws, a non-OK status, or the entries parsed.
SecFeeds ==
    {[kind |-> "throw", entries |-> << >>], [kind |-> "not_ok", entries |-> << >>]}
    \cup {[kind |-> "ok", entries |-> l] :
             l \in UNION {[1..n -> SecCompanies] : n \in 0..MaxUnits}}

\* The gathered_signals line of a run that reached its return.
GatheredLog(g, component) ==
    IF g.pc = "returned" THEN {LogLine(component, "gathered_signals", "none")} ELSE {}

\* gatherSECFilings up to its loop: the feed fetch and its parse.
SecStart(feed) ==
    /\ CanStartGather
    /\ signals' = << >>
    /\ CASE feed.kind = "throw" ->
              /\ gather' = ReturnedGather("sec_edgar")
              /\ logs' = {LogLine("SEC", "error", "none")}
         [] feed.kind = "not_ok" ->
              /\ gather' = ReturnedGather("sec_edgar")
              /\ logs' = {LogLine("SEC", "fetch_error", "none")}
         [] OTHER ->
              LET next == StartedGather("sec_edgar", Slice15(feed.entries), "entries")
              IN /\ gather' = next
                 /\ logs' = GatheredLog(next, "SEC")
    /\ UNCHANGED <<now, tickerVars, twitterVars, rulesVars, companyToTickerCache, auxVars>>

\* The end of one turn of the loop over the entries, from the run g: the Signal
\* is pushed when the ticker is kept, and the loop goes on.
SecEntryEnd(g, ticker, keep) ==
    LET next == Continue(g, FALSE, "entries")
    IN /\ gather' = next
       /\ signals' = IF keep THEN Append(signals, Signal(ticker, "sec_edgar", 1))
                     ELSE signals
       /\ logs' = logs \cup GatheredLog(next, "SEC")

\* One turn of the loop over the entries, up to the await of validateWithAlpaca:
\* the company name is resolved (dir answers the directory fetch, when one is
\* made) and the cached validation of the ticker is looked up.
SecEntry(dir) ==
    /\ gather.pc = "entries"
    /\ caller[1].pc = "idle"
    /\ LET r == resolveTickerFromCompanyName(companyToTickerCache, Head(gather.units), dir)
           g == [gather EXCEPT !.resolve =
                    [name |-> r.name, fetched |-> r.fetched, ticker |-> r.ticker]]
       IN /\ companyToTickerCache' = r.cache
          /\ IF r.ticker = << >>
             THEN LET next == Continue(g, r.fetched /\ dir.kind # "ok", "entries")
                  IN /\ gather' = next
                     /\ logs' = logs \cup GatheredLog(next, "SEC")
                     /\ UNCHANGED <<signals, caller, returned, getAssetCalls>>
             ELSE LET ticker == r.ticker[1]
                      cached == getCachedValidation(ticker)
                  IN IF cached = Undefined
                     THEN /\ ValidateBegin(1, "sec", ticker)
                          /\ gather' = [g EXCEPT !.pc = "getAsset"]
                          /\ UNCHANGED <<signals, logs>>
                     ELSE /\ SecEntryEnd(g, ticker, cached = "true")
                          /\ UNCHANGED <<caller, returned, getAssetCalls>>
    /\ UNCHANGED <<now, secTickers, lastSecRefresh, alpacaCache, twitterVars, rulesVars, auxVars>>

----------------------------------------------------------------------------
(* index.ts: gatherReddit *)

Subreddits == <<"wallstreetbets", "stocks", "investing", "options">>

\* A post whose fields cannot be read, and the posts that can: the tickers
\* extractTickers finds in their text, in order.
BadPost == [bad |-> TRUE, tickers |-> << >>]
GoodPosts == {[bad |-> FALSE, tickers |-> t] : t \in {<<"GME">>, <<"ZZZZ">>, <<"GME", "ZZZZ">>}}

\* The hot.json response of a subreddit: the fetch throws, a non-OK status, a body
\* json() rejects, or a list of posts: none, one post, a post that cannot be
\* read, or a post followed by one that cannot be read.
RedditResponses ==
    {[kind |-> k, posts |-> << >>] : k \in {"throw", "not_ok", "bad_json"}}
    \cup {[kind |-> "ok", posts |-> l] :
             l \in {<< >>, <<BadPost>>} \cup {<<p>> : p \in GoodPosts}
                                        \cup {<<p, BadPost>> : p \in GoodPosts}}

\* The position of symbol in the tickerData map, 0 when absent.
TickerIndex(td, symbol) ==
    IF \E i \in 1..Len(td) : td[i].symbol = symbol
    THEN CHOOSE i \in 1..Len(td) : td[i].symbol = symbol
    ELSE 0

\* tickerData after one mention of ticker: the entry is created at the end of
\* the map when absent, and d.mentions++.
AddMention(td, ticker) ==
    IF TickerIndex(td, ticker) = 0
    THEN Append(td, [symbol |-> ticker, mentions |-> 1])
    ELSE [td EXCEPT ![TickerIndex(td, ticker)].mentions = @ + 1]

RECURSIVE AddMentions(_, _)
\* tickerData after the loop over the tickers of one post.
AddMentions(td, tickers) ==
    IF tickers = << >> THEN td
    ELSE AddMentions(AddMention(td, Head(tickers)), Tail(tickers))

RECURSIVE AddPosts(_, _)
\* The loop over the posts of one subreddit: the tickerData reached, and whether
\* the loop threw at a post.
AddPosts(td, posts) ==
    IF posts = << >> THEN [tickerData |-> td, threw |-> FALSE]
    ELSE IF Head(posts).bad THEN [tickerData |-> td, threw |-> TRUE]
    ELSE AddPosts(AddMentions(td, Head(posts).tickers), Tail(posts))

\* The keys of tickerData in the order of the map.
TickerKeys(td) == [i \in 1..Len(td) |-> td[i].symbol]

\* gatherReddit up to the first fetch.
RedditStart ==
    /\ CanStartGather
    /\ signals' = << >>
    /\ logs' = {}
    /\ gather' = StartedGather("reddit", Subreddits, "subs")
    /\ UNCHANGED <<now, tickerVars, twitterVars, rulesVars, companyToTickerCache, auxVars>>

\* One turn of the loop over the subreddits; after the last one the loop over
\* tickerData is entered.
RedditSub(res) ==
    /\ gather.pc = "subs"
    /\ LET done == IF res.kind = "ok" THEN AddPosts(gather.tickerData, res.posts)
                   ELSE [tickerData |-> gather.tickerData, threw |-> res.kind # "not_ok"]
           failed == res.kind # "ok" \/ done.threw
           next == [Continue(gather, failed, "subs") EXCEPT !.tickerData = done.tickerData]
       IN /\ gather' = IF next.pc = "returned"
                       THEN [next EXCEPT !.keys = TickerKeys(done.tickerData),
                                         !.pc = LoopPc(TickerKeys(done.tickerData), "validate")]
                       ELSE next
          /\ logs' = IF done.threw
                     THEN logs \cup {LogLine("Reddit", "subreddit_error", "none")}
                     ELSE logs
    /\ UNCHANGED <<now, tickerVars, twitterVars, rulesVars, signals, companyToTickerCache, auxVars>>

\* tickerData.get(symbol).mentions
Mentions(td, symbol) == td[TickerIndex(td, symbol)].mentions

\* A floor of one mention.
Promoted_SingleMention(mentions) == mentions >= 1

\* The minimum-mention floor of the loop over tickerData: data.mentions >= 2
Promoted(mentions) == mentions >= 2

\* The end of one turn of the loop over tickerData: the Signal is pushed when the
\* symbol is kept, and the loop goes on.
RedditTickerEnd(symbol, keep) ==
    /\ gather' = [gather EXCEPT !.pc = LoopPc(Tail(gather.keys), "validate"),
                                !.keys = Tail(@)]
    /\ signals' = IF keep
                  THEN Append(signals, Signal(symbol, "reddit",
                                              Mentions(gather.tickerData, symbol)))
                  ELSE signals

\* One turn of the loop over tickerData, up to the await of validateWithAlpaca.
RedditTicker ==
    /\ gather.pc = "validate"
    /\ caller[1].pc = "idle"
    /\ LET symbol == Head(gather.keys)
           cached == getCachedValidation(symbol)
       IN IF Promoted(Mentions(gather.tickerData, symbol))
             /\ ~isKnownSecTicker(symbol) /\ cached = Undefined
          THEN /\ ValidateBegin(1, "reddit", symbol)
               /\ gather' = [gather EXCEPT !.pc = "getAsset"]
               /\ UNCHANGED <<signals, logs>>
          ELSE /\ RedditTickerEnd(symbol,
                      /\ Promoted(Mentions(gather.tickerData, symbol))
                      /\ (isKnownSecTicker(symbol) \/ cached = "true"))
               /\ UNCHANGED <<logs, caller, returned, getAssetCalls>>
    /\ UNCHANGED <<now, secTickers, lastSecRefresh, alpacaCache, twitterVars, rulesVars,
                   companyToTickerCache, auxVars>>

----------------------------------------------------------------------------
(* The gatherers after validateWithAlpaca returned *)

\* validateWithAlpaca settles with asset and returns into the loop of the
\* gatherer that awaited it.
GatherValidateResume(asset) ==
    /\ gather.pc = "getAsset"
    /\ caller[1].pc = "getAsset"
    /\ ValidateEnd(1, asset)
    /\ IF gather.source = "reddit"
       THEN /\ RedditTickerEnd(caller[1].symbol, ValidatedAs(asset))
            /\ logs' = IF ValidatedAs(asset) THEN logs
                       ELSE logs \cup {LogLine("Reddit", "invalid_ticker_filtered",
                                               caller[1].symbol)}
       ELSE SecEntryEnd(gather, caller[1].symbol, ValidatedAs(asset))
    /\ UNCHANGED <<now, secTickers, lastSecRefresh, getAssetCalls, twitterVars,
                   rulesVars, companyToTickerCache, auxVars>>

----------------------------------------------------------------------------
(* The ticker cache and its callers *)

\* The ticker cache with no call made.
TickerAtRest ==
    /\ secTickers = NullSecTickers
    /\ lastSecRefresh = 0
    /\ alpacaCache = << >>
    /\ getAssetCalls = [s \in UpperSymbols |-> 0]
    /\ caller = [p \in Callers |-> IdleCall]
    /\ returned = Return("none", "none", "none")

TickerInit ==
    /\ now \in TimePoints
    /\ TickerAtRest
    /\ GatherAtRest
    /\ AuxAtRest
    /\ env = [TWITTER_BEARER_TOKEN |-> FALSE]
    /\ TwitterAtRest
    /\ RulesAtRest

TickerNext ==
    \/ Tick
    \/ \E p \in Callers : RefreshStart(p)
    \/ \E p \in Callers, r \in SecResponses : RefreshResume(p, r)
    \/ \E s \in RawSymbols, v \in BOOLEAN : SetCachedValidation(s, v)
    \/ \E p \in Callers, s \in RawSymbols : ValidateStart(p, s)
    \/ \E p \in Callers, a \in AssetResponses : ValidateResume(p, a)
    \/ \E p \in Callers, s \in RawSymbols : RedditValidate(p, s)
    \/ \E p \in Callers, s \in RawSymbols : SecValidate(p, s)

SpecTicker == TickerInit /\ [][TickerNext]_vars

----------------------------------------------------------------------------
(* The Twitter layer and its callers *)

\* The symbols confirmations are asked for, and the existing sentiments (in
\* hundredths) that come with them.
ConfirmSymbols == {"GME"}
ExistingSentiments == {-50, 10, 50}

\* The existing sentiments of the budget specifications: below and above the
\* confirmation threshold.
BudgetSentiments == {10, 50}

\* The responses of the budget specifications: each failure, no tweet, one
\* bullish tweet.
BudgetResponses ==
    SearchFailures \cup
    {[kind |-> "ok", tweets |-> << >>],
     [kind |-> "ok", tweets |-> <<[polarity |-> 1, weight |-> 1, age |-> 0, mentions |-> TRUE]>>]}

TwitterInit ==
    /\ now \in TimePoints
    /\ TickerAtRest
    /\ GatherAtRest
    /\ AuxAtRest
    /\ env \in [TWITTER_BEARER_TOKEN : BOOLEAN]
    /\ TwitterAtRest
    /\ RulesAtRest

\* No lookup is suspended: the next one starts after the previous one returned.
NoLookupInFlight == \A q \in Callers : lookup[q].pc = "idle"

\* Lookups that may be suspended at their fetch at the same time.
TwitterNext ==
    \/ Tick
    \/ \E p \in Callers, s \in ConfirmSymbols, e \in BudgetSentiments : ConfirmStart(p, s, e)
    \/ \E p \in Callers, r \in BudgetResponses : ConfirmResume(p, r)
    \/ \E p \in Callers, n \in 0..1 : NewsStart(p, n)
    \/ \E p \in Callers, r \in BudgetResponses : NewsResume(p, r)

SpecTwitter == TwitterInit /\ [][TwitterNext]_vars

\* Sequential callers: a lookup starts only when none is suspended.
TwitterSeqNext ==
    \/ Tick
    \/ \E p \in Callers, s \in ConfirmSymbols, e \in BudgetSentiments :
          NoLookupInFlight /\ ConfirmStart(p, s, e)
    \/ \E p \in Callers, r \in BudgetResponses : ConfirmResume(p, r)
    \/ \E p \in Callers, n \in 0..1 : NoLookupInFlight /\ NewsStart(p, n)
    \/ \E p \in Callers, r \in BudgetResponses : NewsResume(p, r)

SpecTwitterSeq == TwitterInit /\ [][TwitterSeqNext]_vars


\* The instants of the confirmation lookups: a first lookup, the last instant
\* its result is fresh, the instant it expires, and the next day.
ConfirmTimes ==
    {2 * ONE_DAY_MS, 2 * ONE_DAY_MS + CACHE_TTL_MS - 1, 2 * ONE_DAY_MS + CACHE_TTL_MS,
     3 * ONE_DAY_MS + 1}

ConfirmTick ==
    /\ \E t \in ConfirmTimes : t > now /\ now' = t
    /\ UNCHANGED <<tickerVars, twitterVars, rulesVars, gatherVars, auxVars>>

\* The symbols confirmations are asked for in the cache specifications.
CachedSymbols == {"GME", "AMC"}

\* A tweet of given polarity and weight, and a news tweet of given age.
SentimentTweet(polarity, weight) ==
    [polarity |-> polarity, weight |-> weight, age |-> 0, mentions |-> TRUE]
NewsTweet(age, mentions) ==
    [polarity |-> 0, weight |-> 1, age |-> age, mentions |-> mentions]

\* The responses to a confirmation search: each failure, no tweet, one tweet of
\* either polarity or none, a tweet without weight, a bullish and a neutral one.
ConfirmResponses ==
    SearchFailures \cup
    {[kind |-> "ok", tweets |-> l] :
        l \in {<< >>, <<SentimentTweet(1, 1)>>, <<SentimentTweet(-1, 1)>>,
               <<SentimentTweet(0, 1)>>, <<SentimentTweet(1, 0)>>,
               <<SentimentTweet(1, 1), SentimentTweet(0, 1)>>}}

\* The responses to a news search: a failure, no tweet, one tweet just under and
\* at the breaking threshold, at and beyond the maximum age, one that mentions no
\* symbol, and an old tweet followed by a breaking one.
NewsResponses ==
    {[kind |-> "not_ok", tweets |-> << >>]} \cup
    {[kind |-> "ok", tweets |-> l] :
        l \in {<< >>, <<NewsTweet(BREAKING_THRESHOLD_MS - 1, TRUE)>>,
               <<NewsTweet(BREAKING_THRESHOLD_MS, TRUE)>>,
               <<NewsTweet(MAX_NEWS_AGE_MS, TRUE)>>,
               <<NewsTweet(MAX_NEWS_AGE_MS + 1, TRUE)>>,
               <<NewsTweet(0, FALSE)>>,
               <<NewsTweet(MAX_NEWS_AGE_MS + 1, TRUE), NewsTweet(0, TRUE)>>}}

\* The budget left by earlier cycles: nothing stored, or a window started a day
\* before the first instant or at it, untouched, nearly spent or spent.
BudgetStores ==
    {<< >>} \cup
    {StateSet(StateSet(<< >>, "twitterDailyReads", c), "twitterDailyReadReset", r) :
        c \in {0, MAX_DAILY_READS - 1, MAX_DAILY_READS},
        r \in {ONE_DAY_MS, 2 * ONE_DAY_MS}}

ConfirmInit ==
    /\ now = 2 * ONE_DAY_MS
    /\ TickerAtRest
    /\ GatherAtRest
    /\ AuxAtRest
    /\ env \in [TWITTER_BEARER_TOKEN : BOOLEAN]
    /\ state \in BudgetStores
    /\ lookup = [p \in Callers |-> IdleLookup]
    /\ answered = Answer("none", "none", "none", << >>)
    /\ RulesAtRest

\* The reads of the current window are few, or the window is nearly spent.
ReadsInBounds ==
    LET reads == StateGet(state, "twitterDailyReads", 0)
    IN reads < MaxReads \/ reads >= MAX_DAILY_READS - MaxReads

ConfirmNext ==
    \/ ConfirmTick
    \/ \E p \in Callers, s \in CachedSymbols, e \in ExistingSentiments :
          ReadsInBounds /\ NoLookupInFlight /\ ConfirmStart(p, s, e)
    \/ \E p \in Callers, r \in ConfirmResponses : ConfirmResume(p, r)
    \/ \E p \in Callers, n \in 0..1 : ReadsInBounds /\ NoLookupInFlight /\ NewsStart(p, n)
    \/ \E p \in Callers, r \in NewsResponses : NewsResume(p, r)

SpecConfirm == ConfirmInit /\ [][ConfirmNext]_vars

----------------------------------------------------------------------------
(* The rules and their callers *)

\* The instant the rules are evaluated at: a whole day.
RulesNow == (MaxDays + 1) * ONE_DAY_MS

PositionSymbols == {"GME", "AMC"}

\* Configurations of the direct staleness calls: no floor, a floor of a day, a
\* floor beyond the max-hold threshold; mid-hold below, at and above max-hold.
StaleConfigs ==
    {[BaseConfig EXCEPT !.stale_min_hold_hours = h, !.stale_mid_hold_days = m,
                        !.stale_max_hold_days = x] :
        h \in {0, 24, 72}, m \in {1, 2, 3}, x \in {2, 3}}

\* Entry records: entered 0, 12, 24, ... hours before the call.
StaleEntries ==
    [entry_time : {RulesNow - k * 12 * MS_PER_HOUR : k \in 0..MaxHoldSteps},
     entry_price : {0, 100},
     entry_social_volume : {0, 10}]

\* Arguments of a direct call: losses of 11% and 5%, gains of 2% and 10% on an
\* entry price of 100; volume gone, at 30%, at 50%, unchanged on an entry of 10.
StaleArgSets ==
    [currentPrice : {89, 95, 102, 110},
     currentSocialVolume : {0, 3, 5, 10},
     entry : {<< >>} \cup {<<e>> : e \in StaleEntries}]

StaleInit ==
    /\ now = RulesNow
    /\ TickerAtRest
    /\ GatherAtRest
    /\ AuxAtRest
    /\ env = [TWITTER_BEARER_TOKEN |-> FALSE]
    /\ TwitterAtRest
    /\ config \in StaleConfigs
    /\ positions = << >>
    /\ positionEntries = << >>
    /\ staleArgs \in StaleArgSets
    /\ rules = [pc |-> "ready", exits |-> << >>, staleness |-> << >>]
    /\ EntriesAtRest

StaleNext == AnalyzeStaleness

SpecStaleness == StaleInit /\ [][StaleNext]_vars

\* Configurations of the exit calls: staleness and options on or off; an options
\* stop-loss of 50%, or of -100%, under which a gain of 100% meets the options
\* stop-loss and the options take-profit at once.
ExitConfigs ==
    {[BaseConfig EXCEPT !.stale_position_enabled = s, !.options_enabled = o,
                        !.options_stop_loss_pct = l] :
        s \in BOOLEAN, o \in BOOLEAN, l \in {50, -100}}

\* Equity positions on a cost basis of 100 at +10%, -5% and 0%, and one with no
\* cost basis and no P&L (plPct is NaN).
EquityPositions ==
    {[symbol |-> s, asset_class |-> "us_equity", unrealized_pl |-> v[1],
      market_value |-> v[2], current_price |-> 110, avg_entry_price |-> 100] :
        s \in PositionSymbols, v \in {<<10, 110>>, <<-5, 95>>, <<0, 100>>, <<0, 0>>}}

\* Option positions at -60%, 0% and +100% of the entry price, and one without
\* an entry price; their unrealized P&L is 10 on a cost basis of 100.
OptionPositions ==
    {[symbol |-> s, asset_class |-> "us_option", unrealized_pl |-> 10,
      market_value |-> 110, current_price |-> v[1], avg_entry_price |-> v[2]] :
        s \in PositionSymbols,
        v \in {<<40, 100>>, <<100, 100>>, <<200, 100>>, <<200, 0>>}}

HeldPositions == EquityPositions \cup OptionPositions

PositionLists == UNION {[1..n -> HeldPositions] : n \in 0..MaxPositions}

\* Entry records of the exit calls: entered now or two days ago.
ExitEntries ==
    [entry_time : {RulesNow, RulesNow - 48 * MS_PER_HOUR},
     entry_price : {100},
     entry_social_volume : {10}]

EntryMaps == UNION {[D -> ExitEntries] : D \in SUBSET PositionSymbols}

\* The store before an exit call: no social snapshot, or one that has GME at
\* its entry volume.
ExitStores ==
    {<< >>, [k \in {"socialSnapshotCache"} |-> [sym \in {"GME"} |-> [volume |-> 10]]]}

ExitsInit ==
    /\ now = RulesNow
    /\ TickerAtRest
    /\ GatherAtRest
    /\ AuxAtRest
    /\ env = [TWITTER_BEARER_TOKEN |-> FALSE]
    /\ state \in ExitStores
    /\ lookup = [p \in Callers |-> IdleLookup]
    /\ answered = Answer("none", "none", "none", << >>)
    /\ config \in ExitConfigs
    /\ positions \in PositionLists
    /\ positionEntries \in EntryMaps
    /\ staleArgs = NoStaleArgs
    /\ rules = [pc |-> "ready", exits |-> << >>, staleness |-> << >>]
    /\ EntriesAtRest

ExitsNext == SelectExits

SpecExits == ExitsInit /\ [][ExitsNext]_vars

----------------------------------------------------------------------------
(* selectEntries and its callers *)

\* The symbol of the i-th research result.
EntrySymbolNames == <<"AAPL", "MSFT", "NVDA", "TSLA", "AMD", "INTC", "ORCL", "IBM">>

\* What a research result says: a confident BUY of top quality, a BUY of lower
\* confidence and quality, a BUY at min_analyst_confidence, a BUY below it, a
\* confident SKIP.
ResearchKinds ==
    {[verdict |-> "BUY", confidence |-> 90, entry_quality |-> "excellent"],
     [verdict |-> "BUY", confidence |-> 80, entry_quality |-> "good"],
     [verdict |-> "BUY", confidence |-> 70, entry_quality |-> "good"],
     [verdict |-> "BUY", confidence |-> 60, entry_quality |-> "excellent"],
     [verdict |-> "SKIP", confidence |-> 95, entry_quality |-> "excellent"]}

ResearchResult(i, k) ==
    [symbol |-> EntrySymbolNames[i], verdict |-> k.verdict, confidence |-> k.confidence,
     entry_quality |-> k.entry_quality, reasoning |-> "reasoning"]

ResearchLists ==
    UNION {{[i \in 1..n |-> ResearchResult(i, f[i])] : f \in [1..n -> ResearchKinds]} :
              n \in 0..MaxResearch}

HeldPosition(sym) ==
    [symbol |-> sym, asset_class |-> "us_equity", unrealized_pl |-> 0,
     market_value |-> 100, current_price |-> 100, avg_entry_price |-> 100]

\* Nothing held, the first researched symbol held, the first two held.
HeldLists ==
    {<< >>, <<HeldPosition("AAPL")>>, <<HeldPosition("AAPL"), HeldPosition("MSFT")>>}

\* Cash and size percentage: 25% and 50% of 600 cut to 20% (108 at 0.9, 96 at
\* 0.8), 10% of 5000 (450, 400), 25% of 5000 cut to 20% (900, 800, above
\* max_position_value).
EntryFunds == {<<600, 25>>, <<600, 50>>, <<5000, 10>>, <<5000, 25>>}

\* Options routing on with a threshold below and above the confidences, and off.
EntryOptions == {<<TRUE, 75>>, <<TRUE, 95>>, <<FALSE, 75>>}

EntryConfigs(funds) ==
    {[BaseConfig EXCEPT !.max_positions = m, !.position_size_pct_of_cash = funds[2],
                        !.options_enabled = o[1], !.options_min_confidence = o[2]] :
        m \in {1, 2, 4}, o \in EntryOptions}

EntriesInit ==
    /\ now = RulesNow
    /\ TickerAtRest
    /\ GatherAtRest
    /\ AuxAtRest
    /\ env = [TWITTER_BEARER_TOKEN |-> FALSE]
    /\ TwitterAtRest
    /\ \E funds \in EntryFunds :
          /\ account = [cash |-> funds[1]]
          /\ config \in EntryConfigs(funds)
    /\ positions \in HeldLists
    /\ positionEntries = << >>
    /\ staleArgs = NoStaleArgs
    /\ rules = [pc |-> "ready", exits |-> << >>, staleness |-> << >>]
    /\ research \in ResearchLists
    /\ candidates = << >>

EntriesNext == SelectEntries

SpecEntries == EntriesInit /\ [][EntriesNext]_vars

\* research results in a list that may name a symbol more than once
MaxRepeated == 2

\* Research lists over two symbols, each result of any kind: a symbol can be
\* researched twice in one cycle.
RepeatedResearchLists ==
    UNION {{[i \in 1..n |-> ResearchResult(f[i][1], f[i][2])] :
               f \in [1..n -> (1..2) \X ResearchKinds]} : n \in 0..MaxRepeated}

RepeatedInit ==
    /\ now = RulesNow
    /\ TickerAtRest
    /\ GatherAtRest
    /\ AuxAtRest
    /\ env = [TWITTER_BEARER_TOKEN |-> FALSE]
    /\ TwitterAtRest
    /\ \E funds \in EntryFunds :
          /\ account = [cash |-> funds[1]]
          /\ config \in EntryConfigs(funds)
    /\ positions \in HeldLists
    /\ positionEntries = << >>
    /\ staleArgs = NoStaleArgs
    /\ rules = [pc |-> "ready", exits |-> << >>, staleness |-> << >>]
    /\ research \in RepeatedResearchLists
    /\ candidates = << >>

RepeatedNext == SelectEntries

SpecRepeated == RepeatedInit /\ [][RepeatedNext]_vars

----------------------------------------------------------------------------
(* The gatherers and their callers *)

\* The tickers the gatherers meet, upper-cased.
GatherSymbols == {"GME", "ZZZZ"}

\* Configurations of the gather runs: crypto on or off, crypto_symbols undefined
\* or a list in any spelling.
GatherConfigs ==
    {BaseConfig}
    \cup {[BaseConfig EXCEPT !.crypto_enabled = TRUE, !.crypto_symbols = c] :
             c \in {<< >>, << << >> >>, <<ConfiguredCryptoSymbols>>}}

\* The cache validateWithAlpaca left after earlier runs.
GatherCaches ==
    UNION {[known -> BOOLEAN] : known \in SUBSET GatherSymbols}

\* The strategy before a gather run: the SEC directory not loaded or loaded with
\* GME, and any earlier verdicts of Alpaca in the cache.
GatherInit ==
    /\ now = RulesNow
    /\ secTickers \in {NullSecTickers, LoadedSecTickers({"GME"})}
    /\ lastSecRefresh = IF secTickers.isNull THEN 0 ELSE now
    /\ alpacaCache \in GatherCaches
    /\ getAssetCalls = [s \in GatherSymbols |-> 0]
    /\ caller = [p \in Callers |-> IdleCall]
    /\ returned = Return("none", "none", "none")
    /\ GatherAtRest
    /\ AuxAtRest
    /\ env = [TWITTER_BEARER_TOKEN |-> FALSE]
    /\ TwitterAtRest
    /\ EntriesAtRest
    /\ config \in GatherConfigs
    /\ positions = << >>
    /\ positionEntries = << >>
    /\ staleArgs = NoStaleArgs
    /\ rules = [pc |-> "ready", exits |-> << >>, staleness |-> << >>]

GatherNext ==
    \/ \E a \in AttemptLists, p \in TrendingPayloads : StockTwitsStart(a, p)
    \/ \E a \in AttemptLists, p \in StreamPayloads : StockTwitsSymbol(a, p)
    \/ CryptoStart
    \/ \E snapshot \in CryptoSnapshots : CryptoSymbol(snapshot)
    \/ \E feed \in SecFeeds : SecStart(feed)
    \/ \E dir \in DirectoryResponses : SecEntry(dir)
    \/ RedditStart
    \/ \E res \in RedditResponses : RedditSub(res)
    \/ RedditTicker
    \/ \E asset \in AssetResponses : GatherValidateResume(asset)

SpecGather == GatherInit /\ [][GatherNext]_vars

\* Configurations of the momentum runs: crypto on or off, the threshold
\* undefined or 1 or 5 per cent.
MomentumConfigs ==
    {[BaseConfig EXCEPT !.crypto_enabled = e, !.crypto_momentum_threshold = t] :
        e \in BOOLEAN, t \in {<< >>, <<1>>, <<5>>}}

\* The strategy before a run of the momentum gatherer.
MomentumInit ==
    /\ now = RulesNow
    /\ secTickers = NullSecTickers
    /\ lastSecRefresh = 0
    /\ alpacaCache = << >>
    /\ getAssetCalls = [s \in GatherSymbols |-> 0]
    /\ caller = [p \in Callers |-> IdleCall]
    /\ returned = Return("none", "none", "none")
    /\ GatherAtRest
    /\ AuxAtRest
    /\ env = [TWITTER_BEARER_TOKEN |-> FALSE]
    /\ TwitterAtRest
    /\ EntriesAtRest
    /\ config \in MomentumConfigs
    /\ positions = << >>
    /\ positionEntries = << >>
    /\ staleArgs = NoStaleArgs
    /\ rules = [pc |-> "ready", exits |-> << >>, staleness |-> << >>]

MomentumNext ==
    \/ CryptoStart
    \/ \E snapshot \in MomentumSnapshots : CryptoSymbol(snapshot)

SpecMomentum == MomentumInit /\ [][MomentumNext]_vars

----------------------------------------------------------------------------
(* helpers/crypto.ts: extractTickers *)

\* Texts and tickers are sequences of one-character strings.
LowerCase == <<"a", "b", "c", "d", "e", "f", "g", "h", "i", "j", "k", "l", "m">> \o
             <<"n", "o", "p", "q", "r", "s", "t", "u", "v", "w", "x", "y", "z">>

UpperCase == <<"A", "B", "C", "D", "E", "F", "G", "H", "I", "J", "K", "L", "M">> \o
             <<"N", "O", "P", "Q", "R", "S", "T", "U", "V", "W", "X", "Y", "Z">>

Chars(w) == {w[i] : i \in 1..Len(w)}

\* String.prototype.toUpperCase on one character and on a string.
UpperChar(c) ==
    IF \E i \in 1..26 : LowerCase[i] = c
    THEN UpperCase[CHOOSE i \in 1..26 : LowerCase[i] = c]
    ELSE c

toUpperCase(w) == [i \in 1..Len(w) |-> UpperChar(w[i])]

\* [A-Z] under the i flag, \w and \s.
IsLetter(c) == c \in Chars(LowerCase) \cup Chars(UpperCase)

IsWordChar(c) == IsLetter(c) \/ c \in {"0", "1", "_"}

IsSpace(c) == c \in {" "}

\* \b before position p of the text (p = Len + 1 is the end).
WordBoundary(text, p) ==
    (p > 1 /\ IsWordChar(text[p - 1])) # (p <= Len(text) /\ IsWordChar(text[p]))

RECURSIVE LetterRun(_, _)
\* The number of letters in a row from position p.
LetterRun(text, p) ==
    IF p <= Len(text) /\ IsLetter(text[p]) THEN 1 + LetterRun(text, p + 1) ELSE 0

\* [A-Z]{lo,5}\b at position p, greedy with backtracking: the length matched, 0
\* for no match.
LettersThenBoundary(text, p, lo) ==
    LET ks == {k \in lo..Min(5, LetterRun(text, p)) : WordBoundary(text, p + k)}
    IN IF ks = {} THEN 0 ELSE CHOOSE k \in ks : \A j \in ks : j <= k

\* The words of the lookahead; calls?, puts? and shares? match with or without
\* the s, and nothing is required after the word.
ContextKeywords ==
    {<<"c", "a", "l", "l">>, <<"p", "u", "t">>, <<"s", "t", "o", "c", "k">>,
     <<"s", "h", "a", "r", "e">>, <<"m", "o", "o", "n">>,
     <<"r", "o", "c", "k", "e", "t">>, <<"y", "o", "l", "o">>, <<"b", "u", "y">>,
     <<"s", "e", "l", "l">>, <<"l", "o", "n", "g">>, <<"s", "h", "o", "r", "t">>}

\* word stands at position p of the text, in any case.
StandsAt(text, p, word) ==
    /\ p + Len(word) - 1 <= Len(text)
    /\ \A i \in 1..Len(word) : UpperChar(text[p + i - 1]) = UpperChar(word[i])

RECURSIVE SpaceRun(_, _)
SpaceRun(text, p) ==
    IF p <= Len(text) /\ IsSpace(text[p]) THEN 1 + SpaceRun(text, p + 1) ELSE 0

\* (?=\s+(?:calls?|puts?|...)) at position p.
KeywordAhead(text, p) ==
    \E n \in 1..SpaceRun(text, p) :
        \E word \in ContextKeywords : StandsAt(text, p + n, word)

\* The regular expression tried at position p: the cashtag alternative first,
\* then the word before a keyword; group is match[1] || match[2].
MatchAt(text, p) ==
    LET tag == IF text[p] = "$" THEN LettersThenBoundary(text, p + 1, 1) ELSE 0
        bare == IF WordBoundary(text, p) THEN LettersThenBoundary(text, p, 2) ELSE 0
    IN IF tag > 0
       THEN [found |-> TRUE, group |-> SubSeq(text, p + 1, p + tag),
             lastIndex |-> p + 1 + tag]
       ELSE IF bare > 0 /\ KeywordAhead(text, p + bare)
       THEN [found |-> TRUE, group |-> SubSeq(text, p, p + bare - 1),
             lastIndex |-> p + bare]
       ELSE [found |-> FALSE, group |-> << >>, lastIndex |-> p + 1]

\* Variant of customSet that keeps the custom blacklist as written.
customSet_AsWritten(customBlacklist) == Chars(customBlacklist)

\* new Set(customBlacklist.map((t) => t.toUpperCase()))
customSet(customBlacklist) ==
    {toUpperCase(customBlacklist[i]) : i \in 1..Len(customBlacklist)}

\* The entries of TICKER_BLACKLIST the texts can spell, of its 280.
TICKER_BLACKLIST ==
    {<<"T", "H", "E">>, <<"A", "L", "L">>, <<"I", "T">>, <<"C", "E", "O">>,
     <<"Y", "O", "L", "O">>, <<"M", "O", "O", "N">>}

RECURSIVE ExecLoop(_, _, _, _)
\* The while loop over regex.exec from lastIndex p; matches is the Set in
\* insertion order.
ExecLoop(text, p, custom, matches) ==
    IF p > Len(text)
    THEN matches
    ELSE LET m == MatchAt(text, p)
             ticker == toUpperCase(m.group)
         IN IF m.found /\ Len(ticker) >= 2 /\ Len(ticker) <= 5
               /\ ticker \notin TICKER_BLACKLIST /\ ticker \notin custom
               /\ ticker \notin Chars(matches)
            THEN ExecLoop(text, m.lastIndex, custom, Append(matches, ticker))
            ELSE ExecLoop(text, m.lastIndex, custom, matches)

\* extractTickers(text, customBlacklist)
extractTickers(text, customBlacklist) ==
    ExecLoop(text, 1, customSet(customBlacklist), << >>)

\* One call of extractTickers on the arguments drawn at the start.
ExtractTickers ==
    /\ extraction.pc = "ready"
    /\ extraction' = [extraction EXCEPT
                         !.pc = "done",
                         !.result = extractTickers(extraction.text,
                                                   extraction.customBlacklist)]
    /\ UNCHANGED <<now, tickerVars, twitterVars, rulesVars, gatherVars, trading, worker>>

\* words joined by single spaces in each text
MaxWords == 3

\* The words of the texts: cashtags in either case, of one letter, of six
\* letters, followed by a digit, blacklisted; bare words and a keyword.
TextWords ==
    {<<"$", "g", "m", "e">>, <<"$", "G", "M", "E">>, <<"$", "I">>,
     <<"$", "T", "h", "e">>, <<"$", "A", "B", "C", "D", "E", "F">>,
     <<"$", "G", "M", "E", "1">>, <<"A", "m", "c">>, <<"a", "l", "l">>,
     <<"b", "u", "y">>}

RECURSIVE JoinWords(_)
JoinWords(ws) ==
    IF Len(ws) = 0 THEN << >>
    ELSE IF Len(ws) = 1 THEN ws[1]
    ELSE ws[1] \o <<" ">> \o JoinWords(Tail(ws))

Texts == {JoinWords(ws) : ws \in UNION {[1..n -> TextWords] : n \in 0..MaxWords}}

\* The custom blacklists: none, or entries in either case.
CustomBlacklists ==
    {<< >>, << <<"g", "m", "e">> >>, << <<"A", "M", "C">> >>,
     << <<"B", "u", "y">>, <<"a", "m", "c">> >>}

ExtractInit ==
    /\ now = RulesNow
    /\ TickerAtRest
    /\ env = [TWITTER_BEARER_TOKEN |-> FALSE]
    /\ TwitterAtRest
    /\ RulesAtRest
    /\ GatherAtRest
    /\ extraction \in [pc : {"ready"}, text : Texts,
                       customBlacklist : CustomBlacklists, result : {<< >>}]
    /\ trading = [pc |-> "idle"]
    /\ worker = [pc |-> "idle"]

ExtractNext == ExtractTickers

SpecExtract == ExtractInit /\ [][ExtractNext]_vars

----------------------------------------------------------------------------
(* rules/entries.ts: runCryptoTrading *)

CRYPTO_RESEARCH_TTL_MS == 300000

\* symbol.includes("/") on the symbols of the model.
IncludesSlash(symbol) == symbol \in {"BTC/USD", "ETH/USD", "SOL/USD"}

\* A ResearchResult as runCryptoTrading reads it. The confidence is << >> when
\* the parsed LLM answer has none (researchCrypto copies analysis.confidence
\* unchecked), <<c>> in hundredths otherwise.
CryptoResearch(verdict, confidence, timestamp) ==
    [verdict |-> verdict, confidence |-> confidence, timestamp |-> timestamp]

\* `cryptoResearch_${symbol}`
ResearchKey(symbol) == "cryptoResearch_" \o symbol

\* positions.filter((p) => cryptoSymbols.has(p.symbol) || p.symbol.includes("/"))
CryptoPositionsOf(poss, cfg) ==
    LET cryptoSymbols == IF cfg.crypto_symbols = << >> THEN {}
                         ELSE {cfg.crypto_symbols[1][i] :
                                  i \in 1..Len(cfg.crypto_symbols[1])}
    IN SelectSeq(poss, LAMBDA q : q.symbol \in cryptoSymbols \/ IncludesSlash(q.symbol))

\* Math.min(ctx.config.crypto_symbols?.length || 3, 3)
MaxCryptoPositions(cfg) ==
    LET n == IF cfg.crypto_symbols = << >> THEN 0 ELSE Len(cfg.crypto_symbols[1])
    IN Min(IF n = 0 THEN 3 ELSE n, 3)

RECURSIVE InsertByMomentum(_, _)
InsertByMomentum(sig, sorted) ==
    IF sorted = << >> THEN <<sig>>
    ELSE IF Head(sorted).momentum >= sig.momentum
    THEN <<Head(sorted)>> \o InsertByMomentum(sig, Tail(sorted))
    ELSE <<sig>> \o sorted

RECURSIVE SortByMomentum(_)
\* .sort((a, b) => (b.momentum || 0) - (a.momentum || 0)): descending and stable.
SortByMomentum(sigs) ==
    IF sigs = << >> THEN << >>
    ELSE InsertByMomentum(sigs[Len(sigs)], SortByMomentum(SubSeq(sigs, 1, Len(sigs) - 1)))

\* ctx.signals filtered to the crypto signals of symbols not held with a
\* positive sentiment, sorted, and cut to two.
CryptoSignals(sigs, heldCrypto) ==
    LET sorted == SortByMomentum(SelectSeq(sigs, LAMBDA g :
                      g.isCrypto /\ g.symbol \notin heldCrypto /\ g.sentiment > 0))
    IN SubSeq(sorted, 1, Min(2, Len(sorted)))

\* The invocation once the exit loop is over: the position count is tested and
\* the entry loop gets its signals.
EnterEntries(t) ==
    IF t.count >= MaxCryptoPositions(config)
    THEN [t EXCEPT !.pc = "done"]
    ELSE LET queue == CryptoSignals(signals, t.heldCrypto)
         IN [t EXCEPT !.pc = IF queue = << >> THEN "done" ELSE "entries",
                      !.queue = queue]

\* The exit loop moved to the positions left.
ContinueExits(t, left) ==
    IF left = << >> THEN EnterEntries([t EXCEPT !.todo = << >>])
    ELSE [t EXCEPT !.todo = left]

\* runCryptoTrading(ctx, positions) up to its exit loop.
CryptoTradingStart ==
    /\ trading.pc = "ready"
    /\ trading' =
          IF ~config.crypto_enabled
          THEN [trading EXCEPT !.pc = "done"]
          ELSE LET cryptoPositions == CryptoPositionsOf(positions, config)
                   t == [trading EXCEPT
                            !.pc = "exits",
                            !.count = Len(cryptoPositions),
                            !.heldCrypto = {cryptoPositions[i].symbol :
                                               i \in 1..Len(cryptoPositions)}]
               IN ContinueExits(t, cryptoPositions)
    /\ UNCHANGED <<now, tickerVars, twitterVars, rulesVars, gatherVars, extraction, worker>>

\* The reason of the sell the exit loop issues for pos, << >> for none.
CryptoExitReason(pos, cfg) ==
    IF PlPctGeq(pos, cfg.crypto_take_profit_pct) THEN <<"Crypto take profit">>
    ELSE IF PlPctLeq(pos, -cfg.crypto_stop_loss_pct) THEN <<"Crypto stop loss">>
    ELSE << >>

\* One turn of the exit loop; sold is what ctx.broker.sell does when called:
\* it resolves, or it throws and ends the invocation.
CryptoExit(sold) ==
    /\ trading.pc = "exits"
    /\ LET pos == Head(trading.todo)
           reason == CryptoExitReason(pos, config)
       IN IF reason = << >>
          THEN /\ sold = "ok"
               /\ trading' = ContinueExits(trading, Tail(trading.todo))
          ELSE LET t == [trading EXCEPT
                            !.sells = Append(@, [symbol |-> pos.symbol,
                                                 reason |-> reason[1],
                                                 position |-> trading.count
                                                              - Len(trading.todo) + 1])]
               IN trading' = IF sold = "ok"
                             THEN ContinueExits(t, Tail(trading.todo))
                             ELSE [t EXCEPT !.pc = "done", !.todo = << >>]
    /\ UNCHANGED <<now, tickerVars, twitterVars, rulesVars, gatherVars, extraction, worker>>

\* research.confidence < min_analyst_confidence; a missing confidence compares
\* as NaN and is not below anything.
ConfidenceBelow(confidence, min) == confidence # << >> /\ confidence[1] < min

\* positionSize: << >> for NaN (no confidence), else <<rational>>.
PositionSize(cash, confidence, cfg) ==
    IF confidence = << >> THEN << >>
    ELSE <<RatMin(<<cash * Min(20, cfg.position_size_pct_of_cash) * confidence[1], 10000>>,
                  RatInt(cfg.crypto_max_position_value))>>

\* !cachedResearch || Date.now() - cachedResearch.timestamp > CRYPTO_RESEARCH_TTL_MS
NeedsResearch(st, symbol, t) ==
    IF ResearchKey(symbol) \in DOMAIN st
    THEN t - st[ResearchKey(symbol)].timestamp > CRYPTO_RESEARCH_TTL_MS
    ELSE TRUE

\* One turn of the entry loop for the signal at the head of the queue.
\* researched is what researchCrypto returns when it is called (<< >> for null),
\* cash what getAccount reports, bought whether ctx.broker.buy returns an order.
CryptoEntry(researched, cash, bought) ==
    /\ trading.pc = "entries"
    /\ LET signal == Head(trading.queue)
           key == ResearchKey(signal.symbol)
           fetch == NeedsResearch(state, signal.symbol, now)
           used == IF fetch THEN researched ELSE <<state[key]>>
           st == IF fetch /\ researched # << >>
                 THEN StateSet(state, key, researched[1]) ELSE state
           skip == \/ used = << >>
                   \/ used[1].verdict # "BUY"
                   \/ ConfidenceBelow(used[1].confidence,
                                      config.min_analyst_confidence)
           size == IF skip THEN << >>
                   ELSE PositionSize(cash, used[1].confidence, config)
           small == ~skip /\ size # << >> /\ RatLess(size[1], RatInt(10))
           left == Tail(trading.queue)
           next == [trading EXCEPT !.queue = left,
                                   !.pc = IF left = << >> THEN "done" ELSE "entries"]
       IN /\ state' = st
          /\ ~fetch => researched = << >>
          /\ IF skip \/ small
             THEN /\ ~bought
                  /\ trading' = next
             ELSE LET order == [symbol |-> signal.symbol, size |-> size,
                                research |-> used[1], fromCache |-> ~fetch,
                                filled |-> bought, count |-> trading.count]
                  IN trading' =
                        IF bought
                        THEN [trading EXCEPT
                                 !.pc = "done", !.queue = << >>,
                                 !.buys = Append(@, order),
                                 !.heldCrypto = @ \cup {signal.symbol},
                                 !.count = @ + 1]
                        ELSE [next EXCEPT !.buys = Append(@, order)]
    /\ UNCHANGED <<now, tickerVars, env, lookup, answered, rulesVars, gatherVars,
                   extraction, worker>>

\* The positions of the trading runs: BTC/USD at +10%, at -5% and flat, ETH/USD
\* flat, and an equity position at +10%.
TradingPositions ==
    {[symbol |-> v[1], asset_class |-> v[2], unrealized_pl |-> v[3],
      market_value |-> 100 + v[3], current_price |-> 100, avg_entry_price |-> 100] :
        v \in {<<"BTC/USD", "crypto", 10>>, <<"BTC/USD", "crypto", -5>>,
               <<"BTC/USD", "crypto", 0>>, <<"ETH/USD", "crypto", 0>>,
               <<"GME", "us_equity", 10>>}}

TradingPositionLists == UNION {[1..n -> TradingPositions] : n \in 0..MaxPositions}

\* A signal as runCryptoTrading reads it: sentiment in hundredths, momentum in
\* per cent.
TradingSignal(symbol, isCrypto, sentiment, momentum) ==
    [symbol |-> symbol, isCrypto |-> isCrypto, sentiment |-> sentiment,
     momentum |-> momentum]

\* The signals of the cycle: none; BTC alone; ETH behind BTC in the list and
\* ahead of it in momentum; three crypto signals; an equity signal and a crypto
\* signal without sentiment ahead of SOL.
TradingSignalLists ==
    {<< >>,
     <<TradingSignal("BTC/USD", TRUE, 100, 5)>>,
     <<TradingSignal("BTC/USD", TRUE, 40, 2), TradingSignal("ETH/USD", TRUE, 100, 5)>>,
     <<TradingSignal("BTC/USD", TRUE, 100, 5), TradingSignal("ETH/USD", TRUE, 40, 2),
       TradingSignal("SOL/USD", TRUE, 10, 1)>>,
     <<TradingSignal("GME", FALSE, 100, 9), TradingSignal("ETH/USD", TRUE, 0, 8),
       TradingSignal("SOL/USD", TRUE, 10, 1)>>}

\* Configurations of the trading runs: crypto off; on with crypto_symbols
\* undefined, empty, of one and of two symbols.
TradingConfigs ==
    {BaseConfig}
    \cup {[BaseConfig EXCEPT !.crypto_enabled = TRUE, !.crypto_symbols = c] :
             c \in {<< >>, << << >> >>, << <<"BTC/USD">> >>,
                    << <<"BTC/USD", "ETH/USD">> >>}}

\* What the LLM answer parses to: a confident BUY, a BUY below the minimum
\* confidence, a BUY without a confidence, a SKIP.
ResearchAnswers(t) ==
    {CryptoResearch("BUY", <<90>>, t), CryptoResearch("BUY", <<60>>, t),
     CryptoResearch("BUY", << >>, t), CryptoResearch("SKIP", <<90>>, t)}

\* The research cached by earlier cycles: none, or one for BTC/USD that is 300 s
\* or 300.001 s old.
TradingStores ==
    {<< >>}
    \cup {StateSet(<< >>, ResearchKey("BTC/USD"), r) :
             r \in ResearchAnswers(RulesNow - CRYPTO_RESEARCH_TTL_MS)
                   \cup ResearchAnswers(RulesNow - CRYPTO_RESEARCH_TTL_MS - 1)}

IdleTrading ==
    [pc |-> "ready", todo |-> << >>, count |-> 0, heldCrypto |-> {}, sells |-> << >>,
     queue |-> << >>, buys |-> << >>]

TradingInit ==
    /\ now = RulesNow
    /\ TickerAtRest
    /\ env = [TWITTER_BEARER_TOKEN |-> FALSE]
    /\ state \in TradingStores
    /\ lookup = [p \in Callers |-> IdleLookup]
    /\ answered = Answer("none", "none", "none", << >>)
    /\ EntriesAtRest
    /\ config \in TradingConfigs
    /\ positions \in TradingPositionLists
    /\ positionEntries = << >>
    /\ staleArgs = NoStaleArgs
    /\ rules = [pc |-> "ready", exits |-> << >>, staleness |-> << >>]
    /\ gather = IdleGather
    /\ signals \in TradingSignalLists
    /\ logs = {}
    /\ companyToTickerCache = << >>
    /\ extraction = [pc |-> "idle"]
    /\ trading = IdleTrading
    /\ worker = [pc |-> "idle"]

TradingNext ==
    \/ CryptoTradingStart
    \/ \E sold \in {"ok", "throw"} : CryptoExit(sold)
    \/ \E researched \in {<< >>} \cup {<<r>> : r \in ResearchAnswers(now)},
          cash \in {40, 1000}, bought \in BOOLEAN :
          CryptoEntry(researched, cash, bought)

SpecTrading == TradingInit /\ [][TradingNext]_vars

----------------------------------------------------------------------------
(* src/index.ts: the worker's fetch handler *)

\* String.prototype.startsWith
StartsWith(s, prefix) ==
    Len(s) >= Len(prefix) /\ SubSeq(s, 1, Len(prefix)) = prefix

\* String.prototype.slice(from) and slice(from, to), with 0-based arguments
Slice(s, from) == SubSeq(s, from + 1, Len(s))
SliceTo(s, from, to) == SubSeq(s, from + 1, Min(to, Len(s)))

BearerPrefix == <<"B", "e", "a", "r", "e", "r", " ">>
McpPrefix == <<"/", "m", "c", "p">>
AgentPrefix == <<"/", "a", "g", "e", "n", "t">>

RECURSIVE MismatchFrom(_, _, _)
\* The loop of constantTimeCompare from index i on: 0 when no pair of
\* characters differs, 1 when one does (charCodeAt past the end is NaN, and
\* x ^ NaN is x).
MismatchFrom(a, b, i) ==
    IF i > Len(a) THEN 0
    ELSE IF i > Len(b) \/ a[i] # b[i] THEN 1
    ELSE MismatchFrom(a, b, i + 1)

\* The comparison without the test of the lengths.
constantTimeCompare_NoLengthTest(a, b) == MismatchFrom(a, b, 1) = 0

\* constantTimeCompare(a, b)
constantTimeCompare(a, b) ==
    IF Len(a) # Len(b) THEN FALSE ELSE MismatchFrom(a, b, 1) = 0

\* isAuthorized(request, env). The token and the header are << >> when absent
\* and <<text>> otherwise.
isAuthorized(authHeader, token) ==
    IF token = << >> \/ token = << << >> >> THEN FALSE
    ELSE IF authHeader = << >> \/ ~StartsWith(authHeader[1], BearerPrefix) THEN FALSE
    ELSE constantTimeCompare(Slice(authHeader[1], 7), token[1])

\* `agent-${tokenHash}`, where tokenHash is
\* request.headers.get("Authorization")?.slice(7, 15) || "anon"
RateKey(authHeader) ==
    LET hash == IF authHeader = << >> THEN << >> ELSE SliceTo(authHeader[1], 7, 15)
    IN <<"agent-">> \o (IF hash = << >> THEN <<"anon">> ELSE hash)

\* url.pathname.replace("/agent", "") || "/status", for a path that starts
\* with /agent
AgentPath(pathname) ==
    IF Slice(pathname, 6) = << >> THEN <<"/", "s", "t", "a", "t", "u", "s">>
    ELSE Slice(pathname, 6)

Response(status, to, path) == [status |-> status, to |-> to, path |-> path]

\* The response of fetch to a request and where the request was forwarded;
\* allowed is the answer of checkRateLimit when it is asked.
Served(pathname, authHeader, token, allowed) ==
    IF pathname = <<"/", "h", "e", "a", "l", "t", "h">> \/ pathname = <<"/">>
    THEN Response(200, "none", << >>)
    ELSE IF StartsWith(pathname, McpPrefix)
    THEN IF ~isAuthorized(authHeader, token)
         THEN Response(401, "none", << >>)
         ELSE Response(200, "mcp", pathname)
    ELSE IF StartsWith(pathname, AgentPrefix)
    THEN IF ~isAuthorized(authHeader, token)
         THEN Response(401, "none", << >>)
         ELSE IF ~allowed
         THEN Response(429, "none", << >>)
         ELSE Response(200, "harness", AgentPath(pathname))
    ELSE Response(404, "none", << >>)

\* requests one worker serves in a behaviour
MaxRequests == 2

\* fetch(request, env, ctx): incrementRequest is called for the requests that
\* go on to the harness and for no others.
Fetch(pathname, authHeader, allowed) ==
    /\ worker.pc = "serving"
    /\ worker.served < MaxRequests
    /\ LET response == Served(pathname, authHeader, worker.token, allowed)
           key == RateKey(authHeader)
       IN worker' = [worker EXCEPT
                        !.served = @ + 1,
                        !.request = [pathname |-> pathname, authHeader |-> authHeader,
                                     allowed |-> allowed],
                        !.response = response,
                        !.requests = IF response.to = "harness"
                                     THEN MapSet(@, key, StateGet(@, key, 0) + 1)
                                     ELSE @]
    /\ UNCHANGED <<now, tickerVars, twitterVars, rulesVars, gatherVars, extraction, trading>>

ApiToken == <<"t", "o", "k">>

\* MAHORAGA_API_TOKEN: unset, empty, set
Tokens == {<< >>, << << >> >>, <<ApiToken>>}

\* Paths: the two public ones, /mcp and /agent with and without a tail, and
\* paths that only resemble them.
Pathnames ==
    {<<"/">>, <<"/", "h", "e", "a", "l", "t", "h">>,
     McpPrefix, McpPrefix \o <<"/", "x">>, McpPrefix \o <<"x">>,
     AgentPrefix, AgentPrefix \o <<"/", "x">>,
     <<"/", "a", "g", "e">>, <<"/", "x">> \o McpPrefix}

\* Authorization headers: none, the token as a bearer, a wrong token of the
\* same length, a prefix of the token, the token with a tail, the empty bearer,
\* the token without the scheme, and the scheme in lower case.
AuthHeaders ==
    {<< >>, <<BearerPrefix \o ApiToken>>, <<BearerPrefix \o <<"t", "o", "x">> >>,
     <<BearerPrefix \o <<"t", "o">> >>, <<BearerPrefix \o ApiToken \o <<"k">> >>,
     <<BearerPrefix>>, <<ApiToken>>,
     << <<"b", "e", "a", "r", "e", "r", " ">> \o ApiToken>>}

WorkerInit ==
    /\ now = 0
    /\ TickerAtRest
    /\ env = [TWITTER_BEARER_TOKEN |-> FALSE]
    /\ TwitterAtRest
    /\ RulesAtRest
    /\ GatherAtRest
    /\ extraction = [pc |-> "idle"]
    /\ trading = [pc |-> "idle"]
    /\ \E token \in Tokens :
          worker = [pc |-> "serving", token |-> token, served |-> 0,
                    request |-> [pathname |-> << >>, authHeader |-> << >>,
                                 allowed |-> TRUE],
                    response |-> Response(0, "none", << >>), requests |-> << >>]

WorkerNext ==
    \E pathname \in Pathnames, authHeader \in AuthHeaders, allowed \in BOOLEAN :
       Fetch(pathname, authHeader, allowed)

SpecWorker == WorkerInit /\ [][WorkerNext]_vars

----------------------------------------------------------------------------
(* Claims about the ticker cache *)

\* A caller p enters the await of getAsset in this step.
IssuesGetAsset(p) == caller[p].pc = "idle" /\ caller'[p].pc = "getAsset"

\* C1: a gatherer (Reddit or SEC) never issues the external tradability check
\* for a symbol that is in the authoritative SEC set at that moment.
C1_SecSymbolNeverQueried ==
    [][\A p \in Callers :
          (IssuesGetAsset(p) /\ caller'[p].op \in {"reddit", "sec"})
              => ~(~secTickers.isNull
                   /\ ToUpperCase(caller'[p].symbol) \in secTickers.tickers)]_vars

\* C4: the external tradability check is performed at most once per symbol, also
\* when two validateWithAlpaca calls for it are interleaved at the await.
C4_AtMostOneExternalCheck ==
    \A s \in UpperSymbols : getAssetCalls[s] <= 1

\* C5: validateWithAlpaca(symbol) with a cached result returns it without an
\* external call; otherwise it makes exactly one external call, and when that
\* settles it caches and returns true only for an existing tradable asset, false
\* for null, an untradable asset or an exception.
C5_ValidateWithAlpaca ==
    [][\A p \in Callers, s \in RawSymbols :
          /\ ValidateStart(p, s) =>
                IF ToUpperCase(s) \in DOMAIN alpacaCache
                THEN /\ returned' = Return("validate", s, BoolRet(alpacaCache[ToUpperCase(s)]))
                     /\ getAssetCalls' = getAssetCalls
                     /\ alpacaCache' = alpacaCache
                     /\ caller'[p].pc = "idle"
                ELSE /\ getAssetCalls'[ToUpperCase(s)] = getAssetCalls[ToUpperCase(s)] + 1
                     /\ caller'[p].pc = "getAsset"
                     /\ alpacaCache' = alpacaCache
          /\ \A a \in AssetResponses :
                (ValidateResume(p, a) /\ caller[p].op = "validate" /\ caller[p].symbol = s) =>
                     /\ getAssetCalls' = getAssetCalls
                     /\ ToUpperCase(s) \in DOMAIN alpacaCache'
                     /\ alpacaCache'[ToUpperCase(s)] = (a = "tradable")
                     /\ returned' = Return("validate", s, BoolRet(a = "tradable"))]_vars

\* C5 witness: a direct validation of an uncached symbol made one external call,
\* which failed or found nothing tradable; false is cached and was returned.
C5_Witness ==
    /\ returned = Return("validate", "gme", "false")
    /\ getAssetCalls["GME"] = 1
    /\ "GME" \in DOMAIN alpacaCache /\ alpacaCache["GME"] = FALSE
    /\ \A p \in Callers : caller[p].pc = "idle"

\* C6 as stated: once the cache holds false for a symbol it holds false for it
\* after every later step.
C6_NegativeIsSticky ==
    [][\A s \in UpperSymbols :
          (s \in DOMAIN alpacaCache /\ alpacaCache[s] = FALSE)
              => (s \in DOMAIN alpacaCache' /\ alpacaCache'[s] = FALSE)]_vars

\* C6 amended: while the cache holds false for a symbol, getCachedValidation and
\* validateWithAlpaca return false for it in every spelling and no external check
\* is started for it; the entry stops being false only by setCachedValidation(symbol,
\* true) or by the completion of a validateWithAlpaca call that was already awaiting
\* its external check.
C6_NegativeStickyUntilOverwritten ==
    [][\A s \in UpperSymbols :
          (s \in DOMAIN alpacaCache /\ alpacaCache[s] = FALSE) =>
              /\ getAssetCalls'[s] = getAssetCalls[s]
              /\ \A raw \in RawSymbols : ToUpperCase(raw) = s =>
                    /\ getCachedValidation(raw) = "false"
                    /\ \A p \in Callers : ValidateStart(p, raw) =>
                          /\ returned' = Return("validate", raw, "false")
                          /\ caller'[p].pc = "idle"
              /\ ~(s \in DOMAIN alpacaCache' /\ alpacaCache'[s] = FALSE) =>
                    \/ \E raw \in RawSymbols :
                          ToUpperCase(raw) = s /\ SetCachedValidation(raw, TRUE)
                    \/ \E p \in Callers :
                          /\ caller[p].pc = "getAsset"
                          /\ ToUpperCase(caller[p].symbol) = s
                          /\ ValidateResume(p, "tradable")]_vars

\* C6 witness: false was stored for GME without any external check, and a later
\* validateWithAlpaca("gme") returned false, still without an external check.
C6_Witness ==
    /\ "GME" \in DOMAIN alpacaCache /\ alpacaCache["GME"] = FALSE
    /\ getAssetCalls["GME"] = 0
    /\ returned = Return("validate", "gme", "false")

\* C7: a refresh whose fetch fails (exception, non-OK status, unparsable body)
\* leaves the authoritative set and the refresh timestamp as they were; a refresh
\* whose fetch succeeds replaces the set by the upper-cased tickers of the payload
\* and sets the timestamp to the current time; nothing else changes either.
C7_RefreshKeepsSetOnFailure ==
    [][/\ \A p \in Callers, r \in SecResponses : RefreshResume(p, r) =>
             IF r.kind = "ok"
             THEN /\ secTickers' = [isNull |-> FALSE,
                                    tickers |-> {ToUpperCase(t) : t \in r.tickers}]
                  /\ lastSecRefresh' = now
             ELSE /\ secTickers' = secTickers
                  /\ lastSecRefresh' = lastSecRefresh
       /\ (secTickers' # secTickers \/ lastSecRefresh' # lastSecRefresh) =>
             \E p \in Callers, r \in SecResponses : r.kind = "ok" /\ RefreshResume(p, r)]_vars

\* C7 witness: a refresh failed while a non-empty set was loaded, and the set is
\* still loaded and non-empty.
C7_Witness ==
    /\ returned.op = "refresh" /\ returned.ret \in {"not_ok", "caught"}
    /\ ~secTickers.isNull /\ secTickers.tickers # {}
    /\ lastSecRefresh < now

\* C8: the fetch of the ticker list is issued only when no set is loaded or at
\* least 24h have passed since the last refresh.
C8_NoFetchWhileFresh ==
    [][\A p \in Callers :
          (caller[p].pc = "idle" /\ caller'[p].pc = "fetch")
              => (secTickers.isNull \/ now - lastSecRefresh >= 24 * 60 * 60 * 1000)]_vars

\* C8 witness: a refresh call returned without fetching, less than 24h after the
\* last refresh and at a later instant than it.
C8_Witness ==
    /\ returned = Return("refresh", "none", "fresh")
    /\ ~secTickers.isNull
    /\ now > lastSecRefresh
    /\ \A p \in Callers : caller[p].pc = "idle"

----------------------------------------------------------------------------
(* Claims about the Twitter read budget *)

DailyReads == StateGet(state, "twitterDailyReads", 0)
DailyReadReset == StateGet(state, "twitterDailyReadReset", 0)

\* C2: under sequential callers, once 200 reads are spent and at most 24h have
\* passed since the stored reset timestamp, a lookup (confirmation or news search)
\* returns nothing, issues no fetch and changes nothing in the store; a lookup
\* whose budget check runs more than 24h after the stored reset timestamp leaves
\* the reset timestamp at the current time and the counter at 0 and, when its other
\* gates pass, issues its fetch.
C2_BudgetExhaustionAndRollover ==
    [][/\ (DailyReads >= 200 /\ now - DailyReadReset <= 86400000) =>
             /\ \A p \in Callers, s \in ConfirmSymbols, e \in ExistingSentiments :
                   ConfirmStart(p, s, e) =>
                       /\ answered'.value = << >>
                       /\ lookup' = lookup
                       /\ state' = state
             /\ \A p \in Callers, n \in 0..1 :
                   NewsStart(p, n) =>
                       /\ answered'.value = << >>
                       /\ lookup' = lookup
                       /\ state' = state
       /\ (env.TWITTER_BEARER_TOKEN /\ now - DailyReadReset > 86400000) =>
             /\ \A p \in Callers, s \in ConfirmSymbols, e \in ExistingSentiments :
                   ConfirmStart(p, s, e) =>
                       /\ StateGet(state', "twitterDailyReads", -1) = 0
                       /\ StateGet(state', "twitterDailyReadReset", -1) = now
             /\ \A p \in Callers, n \in 0..1 :
                   NewsStart(p, n) =>
                       /\ StateGet(state', "twitterDailyReads", -1) = 0
                       /\ StateGet(state', "twitterDailyReadReset", -1) = now
                       /\ (n > 0 => lookup'[p].pc = "fetch")]_vars

\* C2 witness: with the credential set and 200 reads spent in the current window,
\* a confirmation was refused at the budget gate.
C2_Witness ==
    /\ env.TWITTER_BEARER_TOKEN
    /\ DailyReads = 200
    /\ now - DailyReadReset <= 86400000
    /\ answered = Answer("confirm", "GME", "gate", << >>)

\* C3: the daily read counter never exceeds 200, also with lookups interleaved at
\* their fetch.
C3_BudgetNeverExceeded == DailyReads <= 200

----------------------------------------------------------------------------
(* Claims about the exit and staleness rules *)

\* The candidates selectExits returned for symbol sym, in order.
ExitsFor(sym) == SelectSeq(rules.exits, LAMBDA c : c.symbol = sym)

\* The indices of the held positions in symbol sym.
Held(sym) == {i \in 1..Len(positions) : positions[i].symbol = sym}

IsOption(pos) == pos.asset_class = "us_option"
TakeProfitEligible(pos) == ~IsOption(pos) /\ PlPctGeq(pos, config.take_profit_pct)
StopLossEligible(pos) == ~IsOption(pos) /\ PlPctLeq(pos, -config.stop_loss_pct)
StaleEligible(pos) ==
    /\ ~IsOption(pos)
    /\ config.stale_position_enabled
    /\ PositionStaleness(pos, state, positionEntries, config, now).isStale

\* C9: after selectExits, no symbol has more candidates than held positions, and
\* a position that is the only one in its symbol has: only option reasons if it
\* is an option; exactly the take-profit candidate if it reached take-profit,
\* stale or not; else exactly the stop-loss candidate if it reached stop-loss,
\* stale or not; else exactly the staleness candidate if staleness is enabled and
\* it is stale; else no candidate.
C9_ExitPrecedence ==
    (rules.pc = "done" /\ rules.staleness = << >>) =>
        /\ \A sym \in PositionSymbols : Len(ExitsFor(sym)) <= Cardinality(Held(sym))
        /\ \A i \in 1..Len(positions) :
              LET pos == positions[i]
                  mine == ExitsFor(pos.symbol)
              IN Cardinality(Held(pos.symbol)) = 1 =>
                   /\ IsOption(pos) =>
                        \A k \in 1..Len(mine) :
                            mine[k].reason \in {"Options stop loss", "Options take profit"}
                   /\ TakeProfitEligible(pos) =>
                        mine = <<SellCandidate(pos.symbol, "Take profit")>>
                   /\ (~TakeProfitEligible(pos) /\ StopLossEligible(pos)) =>
                        mine = <<SellCandidate(pos.symbol, "Stop loss")>>
                   /\ (~IsOption(pos) /\ ~TakeProfitEligible(pos)
                       /\ ~StopLossEligible(pos)) =>
                        mine = IF StaleEligible(pos)
                               THEN <<SellCandidate(pos.symbol, "STALE")>> ELSE << >>

\* C9 witness: selectExits ran on a position that reached take-profit and is
\* stale with staleness enabled, and returned the take-profit candidate alone
\* for it.
C9_Witness ==
    /\ rules.pc = "done"
    /\ \E i \in 1..Len(positions) :
          /\ Cardinality(Held(positions[i].symbol)) = 1
          /\ TakeProfitEligible(positions[i])
          /\ StaleEligible(positions[i])
          /\ ExitsFor(positions[i].symbol)
                 = <<SellCandidate(positions[i].symbol, "Take profit")>>

\* C10: a direct analyzeStaleness call returns isStale = false and score 0 when
\* it has no entry record and when the held time is below stale_min_hold_hours,
\* whatever the price and the social volumes; with a held time of 0 hours it
\* returns isStale = false.
C10_NoEntryAndTooEarlyFloor ==
    (rules.pc = "done" /\ rules.staleness # << >>) =>
        LET r == rules.staleness[1]
        IN /\ staleArgs.entry = << >> =>
                  (~r.isStale /\ r.staleness_score[1] = 0)
           /\ staleArgs.entry # << >> =>
                  /\ (now - staleArgs.entry[1].entry_time
                          < config.stale_min_hold_hours * 3600000) =>
                         (~r.isStale /\ r.staleness_score[1] = 0)
                  /\ (staleArgs.entry[1].entry_time = now) => ~r.isStale

\* C10 witness: a call below the minimum hold time that is past the max-hold
\* threshold with a losing price and no social volume left returned not stale.
C10_Witness ==
    /\ rules.pc = "done"
    /\ rules.staleness # << >>
    /\ staleArgs.entry # << >>
    /\ now - staleArgs.entry[1].entry_time < config.stale_min_hold_hours * 3600000
    /\ now - staleArgs.entry[1].entry_time >= config.stale_max_hold_days * 86400000
    /\ staleArgs.entry[1].entry_price > staleArgs.currentPrice
    /\ staleArgs.currentSocialVolume = 0
    /\ ~rules.staleness[1].isStale

\* A direct analyzeStaleness call returned past the no-entry and too-early exits.
StalenessScored ==
    /\ rules.pc = "done"
    /\ rules.staleness # << >>
    /\ staleArgs.entry # << >>
    /\ now - staleArgs.entry[1].entry_time >= config.stale_min_hold_hours * 3600000

\* The three components of the score for the arguments of the direct call.
CallTimeScore == TimeScore(HoldHours(now, staleArgs.entry[1]), config)
CallPriceScore ==
    PriceScore(HoldHours(now, staleArgs.entry[1]),
               PnlPct(staleArgs.currentPrice, staleArgs.entry[1]), config)
CallVolumeScore == VolumeScore(staleArgs.currentSocialVolume, staleArgs.entry[1], config)

\* x = y as rationals
RatEq(a, b) == a[1] * b[2] = b[1] * a[2]

\* C11: the score a direct analyzeStaleness call returns lies in [0, 100]; past
\* the early exits it equals time + price-action + social-volume components with
\* 0 <= time <= 40, 0 <= price-action <= 30 and 0 <= social-volume <= 30.
C11_ScoreBounded ==
    (rules.pc = "done" /\ rules.staleness # << >>) =>
        LET score == rules.staleness[1].staleness_score
        IN /\ RatLeq(RatInt(0), score) /\ RatLeq(score, RatInt(100))
           /\ StalenessScored =>
                /\ RatEq(score, RatAdd(RatAdd(CallTimeScore, CallPriceScore),
                                       CallVolumeScore))
                /\ RatLeq(RatInt(0), CallTimeScore) /\ RatLeq(CallTimeScore, RatInt(40))
                /\ RatLeq(RatInt(0), CallPriceScore) /\ RatLeq(CallPriceScore, RatInt(30))
                /\ RatLeq(RatInt(0), CallVolumeScore) /\ RatLeq(CallVolumeScore, RatInt(30))

\* C11 witness: a call past max-hold with a loss of 11% (33 points before the
\* cap) and no social volume left returned the full score of 100.
C11_Witness ==
    /\ StalenessScored
    /\ staleArgs.entry[1].entry_price = 100
    /\ staleArgs.currentPrice = 89
    /\ RatEq(rules.staleness[1].staleness_score, RatInt(100))

\* C12: past the minimum-hold floor, isStale is true exactly when the score is
\* at least 70, or the hold time is at least stale_max_hold_days and the P&L
\* percentage is below stale_min_gain_pct.
C12_StaleIffScoreOrCeiling ==
    StalenessScored =>
        LET r == rules.staleness[1]
            e == staleArgs.entry[1]
            reachedMax == now - e.entry_time >= config.stale_max_hold_days * 86400000
            belowGain == IF e.entry_price > 0
                         THEN (staleArgs.currentPrice - e.entry_price) * 100
                                  < config.stale_min_gain_pct * e.entry_price
                         ELSE 0 < config.stale_min_gain_pct
        IN r.isStale <=> (\/ r.staleness_score[1] >= 70 * r.staleness_score[2]
                          \/ (reachedMax /\ belowGain))

\* C12 witness: a call past max-hold with a gain below stale_min_gain_pct
\* returned stale with a score below 70.
C12_Witness ==
    /\ StalenessScored
    /\ rules.staleness[1].isStale
    /\ rules.staleness[1].staleness_score[1] < 70 * rules.staleness[1].staleness_score[2]
    /\ now - staleArgs.entry[1].entry_time >= config.stale_max_hold_days * 86400000
    /\ staleArgs.currentPrice > staleArgs.entry[1].entry_price

----------------------------------------------------------------------------
(* Claims about selectEntries *)

\* selectEntries has returned.
EntriesDone == rules.pc = "done" /\ rules.exits = << >> /\ rules.staleness = << >>

HeldCount == Len(positions)
HeldSymbolSet == {positions[i].symbol : i \in 1..Len(positions)}

\* The research results that are BUY verdicts of sufficient confidence in a
\* symbol not held.
Eligible ==
    {i \in 1..Len(research) :
        /\ research[i].verdict = "BUY"
        /\ research[i].confidence >= config.min_analyst_confidence
        /\ research[i].symbol \notin HeldSymbolSet}

\* cash * min(20, position_size_pct_of_cash) / 100 * confidence, in 1/10000
RawNotional(confidence) ==
    account.cash * (IF config.position_size_pct_of_cash < 20
                    THEN config.position_size_pct_of_cash ELSE 20) * confidence

\* The research result of confidence c clears the floor of 100.
ClearsFloor(confidence) ==
    RawNotional(confidence) >= 100 * 10000 /\ config.max_position_value >= 100

\* C13 as stated: held positions plus returned candidates never exceed
\* max_positions, and nothing is returned when the held count is at or above it.
C13_NeverExceedsMaxPositions ==
    EntriesDone =>
        /\ HeldCount + Len(candidates) <= config.max_positions
        /\ HeldCount >= config.max_positions => candidates = << >>

\* C13 amended: when the held count is at most max_positions, held positions
\* plus returned candidates do not exceed max_positions; when the held count is
\* at or above max_positions nothing is returned.
C13_NeverAddsBeyondMaxPositions ==
    EntriesDone =>
        /\ HeldCount <= config.max_positions =>
               HeldCount + Len(candidates) <= config.max_positions
        /\ HeldCount >= config.max_positions => candidates = << >>

\* C13 witness: one position held, max_positions = 2, two eligible verdicts that
\* clear the floor, one candidate returned.
C13_Witness ==
    /\ EntriesDone
    /\ HeldCount = 1
    /\ config.max_positions = 2
    /\ Cardinality({i \in Eligible : ClearsFloor(research[i].confidence)}) >= 2
    /\ Len(candidates) = 1

\* C14: every returned candidate is a research result with verdict BUY,
\* confidence >= min_analyst_confidence and a symbol not held; the list is in
\* descending order of confidence and has at most 3 elements.
C14_CandidatesEligibleSortedAtMost3 ==
    EntriesDone =>
        /\ \A k \in 1..Len(candidates) :
              \E i \in 1..Len(research) :
                  /\ research[i].symbol = candidates[k].symbol
                  /\ research[i].confidence = candidates[k].confidence
                  /\ research[i].verdict = "BUY"
                  /\ research[i].confidence >= config.min_analyst_confidence
                  /\ research[i].symbol \notin HeldSymbolSet
        /\ \A k \in 1..(Len(candidates) - 1) :
              candidates[k].confidence >= candidates[k + 1].confidence
        /\ Len(candidates) <= 3

\* C14 witness: three candidates of unequal confidence returned from research
\* that lists a lower confidence before a higher one and holds a SKIP, a BUY
\* below the minimum confidence and a BUY in a held symbol.
C14_Witness ==
    /\ EntriesDone
    /\ Len(candidates) = 3
    /\ candidates[1].confidence > candidates[3].confidence
    /\ \E i, j \in Eligible : i < j /\ research[i].confidence < research[j].confidence
    /\ \E i \in 1..Len(research) : research[i].verdict = "SKIP"
    /\ \E i \in 1..Len(research) :
          research[i].verdict = "BUY" /\ research[i].symbol \in HeldSymbolSet

\* k = min(3, max_positions - held count, number of eligible verdicts)
TopK ==
    Min(3, Min(config.max_positions - HeldCount, Cardinality(Eligible)))

\* C15: when every eligible verdict clears the floor of 100, exactly k candidates
\* are returned (none when k <= 0), each an eligible verdict, and every eligible
\* verdict left out has a confidence no higher than any returned one.
C15_ExactlyTopK ==
    (EntriesDone /\ \A i \in Eligible : ClearsFloor(research[i].confidence)) =>
        /\ Len(candidates) = (IF TopK < 0 THEN 0 ELSE TopK)
        /\ \A k \in 1..Len(candidates) :
              \E i \in Eligible : research[i].symbol = candidates[k].symbol
        /\ \A k, l \in 1..Len(candidates) :
              k # l => candidates[k].symbol # candidates[l].symbol
        /\ \A i \in Eligible :
              \/ \E k \in 1..Len(candidates) : candidates[k].symbol = research[i].symbol
              \/ \A k \in 1..Len(candidates) :
                    candidates[k].confidence >= research[i].confidence

\* C15 witness: five BUY verdicts, all eligible and above the floor, of unequal
\* confidence, max_positions = 2, nothing held: two candidates returned, one
\* verdict of lower confidence left out.
C15_Witness ==
    /\ EntriesDone
    /\ Len(research) = 5
    /\ Cardinality(Eligible) = 5
    /\ \A i \in Eligible : ClearsFloor(research[i].confidence)
    /\ config.max_positions = 2
    /\ HeldCount = 0
    /\ Len(candidates) = 2
    /\ \E i \in Eligible : research[i].confidence < candidates[2].confidence

\* C16: every returned candidate has notional
\* min(cash * min(20, position_size_pct_of_cash) / 100 * confidence,
\* max_position_value), and 100 <= notional <= max_position_value.
C16_NotionalSizedAndFloored ==
    EntriesDone =>
        \A k \in 1..Len(candidates) :
            LET n == candidates[k].notional
                \* the notional in 1/10000 of a currency unit
                units == n[1] * (10000 \div n[2])
            IN /\ n[2] > 0 /\ 10000 % n[2] = 0
               /\ units = Min(RawNotional(candidates[k].confidence),
                              config.max_position_value * 10000)
               /\ units >= 100 * 10000
               /\ units <= config.max_position_value * 10000

\* C16 witness: with position_size_pct_of_cash = 25 and cash 600 the verdict of
\* confidence 0.9 is returned with notional 108 (20% of cash), the eligible
\* verdict of confidence 0.8 (notional 96) is not.
C16_Witness ==
    /\ EntriesDone
    /\ account.cash = 600
    /\ config.position_size_pct_of_cash = 25
    /\ Len(candidates) = 1
    /\ candidates[1].notional = <<1080000, 10000>>
    /\ config.max_positions = 4
    /\ HeldCount = 0
    /\ \E i \in Eligible : research[i].confidence = 80

\* C17: a returned candidate has useOptions = true exactly when options are
\* enabled, its confidence is at least options_min_confidence and the entry
\* quality of its research result is "excellent".
C17_UseOptionsIff ==
    EntriesDone =>
        \A k \in 1..Len(candidates) :
            \A i \in 1..Len(research) :
                research[i].symbol = candidates[k].symbol =>
                    (candidates[k].useOptions
                        <=> /\ config.options_enabled
                            /\ candidates[k].confidence >= config.options_min_confidence
                            /\ research[i].entry_quality = "excellent")

\* C17 witness: with options enabled, a candidate of top quality above the
\* options threshold is flagged and one above the threshold of lower quality is
\* not.
C17_Witness ==
    /\ EntriesDone
    /\ config.options_enabled
    /\ \E k, l \in 1..Len(candidates) :
          /\ candidates[k].useOptions
          /\ ~candidates[l].useOptions
          /\ candidates[l].confidence >= config.options_min_confidence

----------------------------------------------------------------------------
(* Claims about the gatherers *)

\* The symbol of a Signal passed the ticker validator: it is in the SEC set, or
\* Alpaca answered that it is tradable.
PassedValidation(symbol) ==
    isKnownSecTicker(symbol) \/ getCachedValidation(symbol) = "true"

\* The sources of the forum, trending and filing gatherers.
ValidatedSources == {"reddit", "stocktwits", "sec_edgar"}

\* C18: no forum, trending or filing gatherer emits a Signal for a symbol that
\* failed validation: the symbol of every emitted Signal is in the SEC set or was
\* found tradable by the ticker validator.
C18_EmittedSymbolsPassedValidation ==
    \A i \in 1..Len(signals) :
        signals[i].source \in ValidatedSources => PassedValidation(signals[i].symbol)

\* The model strings that have the BASE/QUOTE form.
IsBaseQuote(symbol) ==
    symbol \in {"BTC/USD", "ETH/USD", "SOL/USD", "btc/usd"}

\* C19: the symbol of every emitted Signal is upper-cased and, for a crypto
\* Signal, in the BASE/QUOTE form, whatever the spelling upstream or in
\* crypto_symbols.
C19_SymbolsUpperCasedAndBaseQuote ==
    \A i \in 1..Len(signals) :
        /\ ToUpperCase(signals[i].symbol) = signals[i].symbol
        /\ signals[i].source = "crypto" => IsBaseQuote(signals[i].symbol)

\* The positions of a run inside the loop over its sub-units.
UnitLoopPcs == {"subs", "symbols", "coins", "entries"}

\* signals' keeps the Signals of signals, in order.
SignalsKept ==
    /\ Len(signals') >= Len(signals)
    /\ SubSeq(signals', 1, Len(signals)) = signals

\* tickerData' keeps the entries of tickerData with at least their mentions.
TickerDataKept ==
    /\ Len(gather'.tickerData) >= Len(gather.tickerData)
    /\ \A i \in 1..Len(gather.tickerData) :
          /\ gather'.tickerData[i].symbol = gather.tickerData[i].symbol
          /\ gather'.tickerData[i].mentions >= gather.tickerData[i].mentions

----------------------------------------------------------------------------
(* Claims about the Twitter confirmations and the breaking news *)

\* A confirmation is stored for symbol and is less than 300 s old.
FreshConfirmation(symbol) ==
    /\ CacheKey(symbol) \in DOMAIN state
    /\ now - state[CacheKey(symbol)].timestamp < 300000

\* The budget gate as the call meets it: the window is over, or reads are left.
BudgetOpen == now - DailyReadReset > 86400000 \/ DailyReads < 200

\* The three gates of gatherTwitterConfirmation for existing sentiment e
\* (hundredths).
GatesPass(e) ==
    /\ env.TWITTER_BEARER_TOKEN
    /\ BudgetOpen
    /\ (e >= 30 \/ e <= -30)

\* The reads counted after the step.
DailyReadsAfter == StateGet(state', "twitterDailyReads", 0)

\* The step is the return of a search that stores a new confirmation for the
\* symbol of p, stamped with the current instant, and returns it.
StoresNewConfirmation(p) ==
    /\ CacheKey(lookup[p].symbol) \in DOMAIN state'
    /\ state'[CacheKey(lookup[p].symbol)].timestamp = now
    /\ state'[CacheKey(lookup[p].symbol)].symbol = lookup[p].symbol
    /\ answered'.value = <<state'[CacheKey(lookup[p].symbol)]>>

C22_FetchOnlyBehindThreeGates ==
    [][\A p \in Callers, s \in CachedSymbols, e \in ExistingSentiments :
          ConfirmStart(p, s, e) =>
             /\ lookup'[p].pc = "fetch" => GatesPass(e)
             /\ ~GatesPass(e) =>
                   /\ answered'.op = "confirm"
                   /\ answered'.value = << >>
                   /\ lookup' = lookup
                   /\ DailyReadsAfter <= DailyReads]_vars

\* C22 witness: a confirmation fetch is under way, issued with one read left in
\* the budget.
C22_Witness ==
    /\ DailyReads = 199
    /\ \E p \in Callers :
          /\ lookup[p].pc = "fetch"
          /\ lookup[p].op = "confirm"
          /\ lookup[p].existing = -50

\* The sign of a confirmation sentiment <<num, den>> as the confirmation
\* classifies it: 1 above 0.2, -1 below -0.2, 0 in between.
ConfirmationSign(sentiment) ==
    IF 5 * sentiment[1] > sentiment[2] THEN 1
    ELSE IF 5 * sentiment[1] < -sentiment[2] THEN -1 ELSE 0

\* The sign of an existing sentiment.
ExistingSign(e) == IF e > 0 THEN 1 ELSE IF e < 0 THEN -1 ELSE 0

\* C23: the confirms_existing flag of a returned confirmation is true if and only
\* if the sign of its sentiment agrees with the sign of the existing sentiment
\* passed to the call that returns it, also when the confirmation comes from the
\* per-symbol cache.
C23_ConfirmsExistingIffSignsAgree ==
    [][/\ \A p \in Callers, s \in CachedSymbols, e \in ExistingSentiments :
             (ConfirmStart(p, s, e) /\ answered'.value # << >>) =>
                (answered'.value[1].confirms_existing <=>
                    /\ ConfirmationSign(answered'.value[1].sentiment) # 0
                    /\ ConfirmationSign(answered'.value[1].sentiment) = ExistingSign(e))
       /\ \A p \in Callers, r \in ConfirmResponses :
             (ConfirmResume(p, r) /\ answered'.value # << >>) =>
                (answered'.value[1].confirms_existing <=>
                    /\ ConfirmationSign(answered'.value[1].sentiment) # 0
                    /\ ConfirmationSign(answered'.value[1].sentiment)
                          = ExistingSign(lookup[p].existing))]_vars

\* C29: checkTwitterBreakingNews spends at most one read per call, and none (it
\* issues no fetch and returns nothing) when the credential is missing, the budget
\* is exhausted or no symbol is given; it never returns an item older than 30
\* minutes, and an item is flagged as breaking exactly when it is less than 10
\* minutes old.
C29_BreakingNewsBudgetedAndAged ==
    /\ [](answered.op = "news" =>
             \A i \in 1..Len(answered.value) :
                /\ answered.value[i].age <= 1800000
                /\ answered.value[i].is_breaking <=> answered.value[i].age < 600000)
    /\ [][/\ \A p \in Callers, n \in 0..1 :
                NewsStart(p, n) =>
                   /\ DailyReadsAfter <= DailyReads
                   /\ (n = 0 \/ ~env.TWITTER_BEARER_TOKEN \/ ~BudgetOpen) =>
                         /\ lookup' = lookup
                         /\ answered'.op = "news"
                         /\ answered'.value = << >>
          /\ \A p \in Callers, r \in NewsResponses :
                NewsResume(p, r) =>
                   /\ DailyReadsAfter <= DailyReads + 1
                   /\ r.kind = "ok" => DailyReadsAfter = DailyReads + 1]_vars

\* C29 witness: an item exactly 30 minutes old was returned, not flagged as
\* breaking.
C29_Witness ==
    /\ answered.op = "news"
    /\ Len(answered.value) = 1
    /\ answered.value[1].age = 1800000
    /\ ~answered.value[1].is_breaking

----------------------------------------------------------------------------
(* Claims about the retry policy of the trending fetch *)

\* C24: in the trending fetch a 403 response is followed by a sleep of
\* 1 s * 2^attempt and, while attempts are left, by a retry; the fetch makes at
\* most 3 attempts and returns no response when every attempt met a 403.
C24_ForbiddenRetriedWithBackoff ==
    [][CanStartGather =>
       \A a \in AttemptLists, payload \in TrendingPayloads :
          StockTwitsStart(a, payload) =>
             LET f == gather'.fetch
             IN /\ f.fetches \in 1..3
                /\ \A k \in 1..3 :
                      (k <= f.fetches /\ a[k] = "403") =>
                         /\ Len(f.sleeps) >= k
                         /\ f.sleeps[k] = 1000 * 2 ^ (k - 1)
                         /\ k < 3 => f.fetches >= k + 1
                /\ (\A k \in 1..3 : a[k] = "403") =>
                      /\ f.res = Null
                      /\ f.fetches = 3]_vars

\* C24 witness: the trending fetch met three 403 responses, slept 1 s, 2 s and
\* 4 s and returned no response.
C24_Witness ==
    /\ gather.source = "stocktwits"
    /\ gather.pc = "returned"
    /\ gather.fetch = [res |-> Null, fetches |-> 3, sleeps |-> <<1000, 2000, 4000>>]
    /\ logs = {LogLine("StockTwits", "cloudflare_blocked", "none")}

\* C25: a non-OK response other than 403 on the trending fetch ends the fetch at
\* once, with no retry and no sleep after it; whenever the trending fetch returns
\* no response, gatherStockTwits returns an empty Signal list and enters no
\* per-symbol stream fetch.
C25_OtherStatusNotRetriedEmptyResult ==
    [][CanStartGather =>
       \A a \in AttemptLists, payload \in TrendingPayloads :
          StockTwitsStart(a, payload) =>
             LET f == gather'.fetch
             IN /\ \A k \in 1..3 :
                      (k <= f.fetches /\ a[k] = "500") =>
                         /\ f.fetches = k
                         /\ Len(f.sleeps) = k - 1
                         /\ f.res = Null
                /\ f.res = Null =>
                      /\ gather'.pc = "returned"
                      /\ signals' = << >>
                      /\ gather'.all = << >>
                      /\ gather'.units = << >>]_vars

\* C25 witness: the trending fetch met a 500 at its first attempt and
\* gatherStockTwits returned no Signal.
C25_Witness ==
    /\ gather.source = "stocktwits"
    /\ gather.pc = "returned"
    /\ gather.fetch = [res |-> Null, fetches |-> 1, sleeps |-> << >>]
    /\ signals = << >>

----------------------------------------------------------------------------
(* Claims about the forum gatherer's mention floor *)

RECURSIVE PostsMentioning(_, _)
\* The posts of a response, up to the first that cannot be read, whose text
\* mentions symbol.
PostsMentioning(posts, symbol) ==
    IF posts = << >> \/ Head(posts).bad THEN 0
    ELSE (IF \E i \in 1..Len(Head(posts).tickers) : Head(posts).tickers[i] = symbol
          THEN 1 ELSE 0) + PostsMentioning(Tail(posts), symbol)

\* The mentions counted for symbol in a tickerData map, 0 when it has no entry.
MentionsOf(td, symbol) ==
    IF \E i \in 1..Len(td) : td[i].symbol = symbol
    THEN td[CHOOSE i \in 1..Len(td) : td[i].symbol = symbol].mentions
    ELSE 0

\* C26: the forum gatherer counts one mention per post that mentions a ticker,
\* across the subreddits of the run, and promotes a ticker to a Signal only with
\* at least 2 mentions: every forum Signal has volume >= 2, equal to the number of
\* posts that mentioned its symbol.
C26_ForumSignalNeedsTwoMentions ==
    /\ [](\A i \in 1..Len(signals) :
             signals[i].source = "reddit" =>
                /\ signals[i].volume >= 2
                /\ signals[i].volume = MentionsOf(gather.tickerData, signals[i].symbol))
    /\ [][gather.pc = "subs" =>
            \A res \in RedditResponses :
               RedditSub(res) =>
                  \A symbol \in GatherSymbols :
                     MentionsOf(gather'.tickerData, symbol)
                        = MentionsOf(gather.tickerData, symbol)
                          + PostsMentioning(res.posts, symbol)]_vars

\* C26 witness: GME was mentioned by two posts and promoted with volume 2, while
\* ZZZZ, mentioned once, gave no Signal.
C26_Witness ==
    /\ gather.source = "reddit"
    /\ gather.pc = "returned"
    /\ MentionsOf(gather.tickerData, "ZZZZ") = 1
    /\ signals = <<Signal("GME", "reddit", 2)>>

----------------------------------------------------------------------------
(* Claims about the company-name resolution *)

\* The company names of the model upper-cased and trimmed.
UpperTrimmed(companyName) ==
    IF companyName = "GameStop Corp " THEN "GAMESTOP CORP" ELSE companyName

\* C27: company-name resolution is cached by the upper-cased, trimmed name. A
\* name whose normalized form is in the cache resolves to the cached answer (the
\* ticker, or null for a name cached as unresolvable) without a directory fetch
\* and leaves the cache as it is; otherwise the directory is fetched, and the
\* answer of a successful fetch (a ticker or null) is cached under the normalized
\* name while a failed fetch gives null and caches nothing. A cached answer never
\* changes.
C27_ResolutionCachedByNormalizedName ==
    [][gather.pc = "entries" =>
       \A dir \in DirectoryResponses :
          SecEntry(dir) =>
             LET name == UpperTrimmed(Head(gather.units))
             IN /\ \A n \in DOMAIN companyToTickerCache :
                      /\ n \in DOMAIN companyToTickerCache'
                      /\ companyToTickerCache'[n] = companyToTickerCache[n]
                /\ gather'.resolve.name = name
                /\ IF name \in DOMAIN companyToTickerCache
                   THEN /\ ~gather'.resolve.fetched
                        /\ gather'.resolve.ticker = companyToTickerCache[name]
                        /\ companyToTickerCache' = companyToTickerCache
                   ELSE /\ gather'.resolve.fetched
                        /\ dir.kind = "ok" =>
                              /\ name \in DOMAIN companyToTickerCache'
                              /\ companyToTickerCache'[name] = dir.ticker
                              /\ gather'.resolve.ticker = dir.ticker
                        /\ dir.kind # "ok" =>
                              /\ companyToTickerCache' = companyToTickerCache
                              /\ gather'.resolve.ticker = << >>]_vars

\* C27 witness: a name cached as unresolvable was resolved again, to null and
\* without a fetch.
C27_Witness ==
    /\ gather.source = "sec_edgar"
    /\ gather.resolve = [name |-> "GAMESTOP CORP", fetched |-> FALSE, ticker |-> << >>]
    /\ "GAMESTOP CORP" \in DOMAIN companyToTickerCache
    /\ companyToTickerCache["GAMESTOP CORP"] = << >>

----------------------------------------------------------------------------
(* Claims about the momentum gatherer *)

\* What the statement gives for a move of m = <<numerator, denominator>> per
\* cent against a threshold: min(|m| / 5, 1) when |m| reaches the threshold and
\* m is positive, 0.1 otherwise.
StatedSentiment(m, threshold) ==
    IF Abs(m[1]) >= threshold * m[2] /\ m[1] > 0
    THEN Min(Abs(m[1]) * 10, 50 * m[2])
    ELSE 5 * m[2]

\* A fraction equals the stated sentiment, both scaled by 50 * denominator.
HasStatedSentiment(signal, threshold) ==
    signal.sentiment[1] * 50 * signal.momentum[2]
        = StatedSentiment(signal.momentum, threshold) * signal.sentiment[2]

\* The threshold the run is configured with, 2 per cent when none is.
ConfiguredThreshold ==
    IF config.crypto_momentum_threshold = << >>
    THEN 2
    ELSE config.crypto_momentum_threshold[1]

\* C28: the momentum gatherer emits a Signal for a symbol only when the latest
\* price and the previous close are both present and nonzero; its sentiment is
\* min(|momentum| / 5, 1) when |momentum| reaches the configured threshold and
\* momentum is positive, and 0.1 otherwise, significant bearish moves included;
\* with crypto disabled it emits nothing.
C28_MomentumSignalAndSentiment ==
    [][/\ CanStartGather =>
            (CryptoStart /\ ~config.crypto_enabled
                => signals' = << >> /\ gather'.pc = "returned")
       /\ gather.pc = "coins" =>
            /\ config.crypto_enabled
            /\ \A snapshot \in MomentumSnapshots :
                 CryptoSymbol(snapshot) =>
                    IF snapshot.kind = "ok" /\ snapshot.price # 0
                       /\ snapshot.prevClose # 0
                    THEN /\ Len(signals') = Len(signals) + 1
                         /\ SubSeq(signals', 1, Len(signals)) = signals
                         /\ signals'[Len(signals')].symbol = Head(gather.units)
                         /\ signals'[Len(signals')].momentum
                               = <<(snapshot.price - snapshot.prevClose) * 100,
                                   snapshot.prevClose>>
                         /\ HasStatedSentiment(signals'[Len(signals')],
                                               ConfiguredThreshold)
                    ELSE signals' = signals]_vars

\* A run emitted 0.1 for a fall of 5 per cent and 0.4 for a rise of 2 per cent
\* that just reaches the default threshold.
C28_Witness ==
    /\ gather.source = "crypto"
    /\ config.crypto_momentum_threshold = << >>
    /\ Len(signals) = 2
    /\ signals[1].momentum = <<-500, 100>>
    /\ signals[1].sentiment = <<1, 10>>
    /\ signals[2].momentum = <<200, 100>>
    /\ signals[2].sentiment = <<200, 500>>

----------------------------------------------------------------------------
(* Claims about the staleness exits *)

\* Position pos is not an option, matched neither take-profit nor stop-loss, and
\* analyzeStaleness finds it stale.
StaleExitDue(pos) ==
    /\ pos.asset_class # "us_option"
    /\ ~PlPctGeq(pos, config.take_profit_pct)
    /\ ~PlPctLeq(pos, -config.stop_loss_pct)
    /\ PositionStaleness(pos, state, positionEntries, config, now).isStale

\* The STALE candidates among a list of candidates.
StaleCandidates(exits) ==
    {i \in 1..Len(exits) : exits[i].reason = "STALE"}

\* C30: with stale_position_enabled false selectExits returns no STALE candidate
\* and does not write the stalenessAnalysis entry of the store; a STALE
\* candidate is added only for a position that is not an option, matched
\* neither take-profit nor stop-loss, and that analyzeStaleness finds stale.
C30_StaleExitsGatedAndLast ==
    [][SelectExits =>
         /\ ~config.stale_position_enabled =>
               /\ StaleCandidates(rules'.exits) = {}
               /\ "stalenessAnalysis" \notin DOMAIN state'
               /\ state' = state
         /\ \A i \in StaleCandidates(rules'.exits) :
               \E k \in 1..Len(positions) :
                  /\ positions[k].symbol = rules'.exits[i].symbol
                  /\ StaleExitDue(positions[k])]_vars

\* A call with staleness exits enabled returned a STALE candidate for a stale
\* equity position and none for the position that took profit.
C30_Witness ==
    /\ rules.pc = "done"
    /\ config.stale_position_enabled
    /\ Len(positions) = 2
    /\ positions[1].symbol # positions[2].symbol
    /\ positions[1].asset_class # "us_option"
    /\ PlPctGeq(positions[1], config.take_profit_pct)
    /\ StaleExitDue(positions[2])
    /\ rules.exits = <<SellCandidate(positions[1].symbol, "Take profit"),
                       SellCandidate(positions[2].symbol, "STALE")>>
    /\ "stalenessAnalysis" \in DOMAIN state
    /\ DOMAIN state["stalenessAnalysis"] = {positions[2].symbol}

----------------------------------------------------------------------------
(* Claims about extractTickers *)

\* c is one of the letters A to Z.
IsUpperLetter(c) == \E i \in 1..26 : UpperCase[i] = c

\* Two strings are equal when case is ignored.
SameIgnoringCase(v, w) ==
    /\ Len(v) = Len(w)
    /\ \A i \in 1..Len(v) : UpperChar(v[i]) = UpperChar(w[i])

\* C31: every ticker extractTickers returns is upper-case, of length 2 to 5,
\* in neither the static blacklist nor, case ignored, the custom blacklist of the
\* caller, and appears once in the result; the call changes nothing but its
\* result, its arguments included.
C31_ExtractedTickersFiltered ==
    [][ExtractTickers =>
         /\ \A i \in 1..Len(extraction'.result) :
               LET ticker == extraction'.result[i]
               IN /\ \A k \in 1..Len(ticker) : IsUpperLetter(ticker[k])
                  /\ Len(ticker) >= 2 /\ Len(ticker) <= 5
                  /\ ticker \notin TICKER_BLACKLIST
                  /\ \A b \in 1..Len(extraction.customBlacklist) :
                        ~SameIgnoringCase(extraction.customBlacklist[b], ticker)
                  /\ \A j \in 1..Len(extraction'.result) :
                        extraction'.result[j] = ticker => j = i
         /\ extraction'.text = extraction.text
         /\ extraction'.customBlacklist = extraction.customBlacklist
         /\ UNCHANGED <<now, tickerVars, twitterVars, rulesVars, gatherVars,
                        trading, worker>>]_vars

\* "$gme $GME $The" with a custom blacklist gave GME once.
C31_Witness ==
    /\ extraction.pc = "done"
    /\ extraction.text = <<"$", "g", "m", "e", " ", "$", "G", "M", "E", " ",
                           "$", "T", "h", "e">>
    /\ extraction.customBlacklist # << >>
    /\ extraction.result = << <<"G", "M", "E">> >>

----------------------------------------------------------------------------
(* Claims about positions held for less than the mid-hold threshold *)

\* The call had an entry whose hold time is below stale_mid_hold_days, under a
\* configuration with stale_mid_hold_days <= stale_max_hold_days.
HeldBelowMid ==
    /\ rules.pc = "done"
    /\ rules.staleness # << >>
    /\ staleArgs.entry # << >>
    /\ config.stale_mid_hold_days <= config.stale_max_hold_days
    /\ now - staleArgs.entry[1].entry_time < config.stale_mid_hold_days * 86400000

\* C32: under a configuration with stale_mid_hold_days <= stale_max_hold_days a
\* position held for less than stale_mid_hold_days is never reported stale,
\* whatever its P&L and social volume; its score is at most 60.
C32_BelowMidHoldNeverStale ==
    HeldBelowMid =>
        /\ ~rules.staleness[1].isStale
        /\ rules.staleness[1].staleness_score[1]
              <= 60 * rules.staleness[1].staleness_score[2]

\* A position held 12 hours, past the floor, with a loss of 11% and its social
\* volume gone scored 60 and was not reported stale.
C32_Witness ==
    /\ HeldBelowMid
    /\ config.stale_min_hold_hours = 0
    /\ now - staleArgs.entry[1].entry_time = 12 * 3600000
    /\ staleArgs.currentPrice = 89
    /\ staleArgs.currentSocialVolume = 0
    /\ rules.staleness[1].staleness_score[1] = 60 * rules.staleness[1].staleness_score[2]
    /\ ~rules.staleness[1].isStale

----------------------------------------------------------------------------
(* Claims about what the read counter counts *)

\* The step issues the fetch of a search, or is the return of one.
IssuesSearch == \E p \in Callers : lookup[p].pc = "idle" /\ lookup'[p].pc = "fetch"
ReturnsSearch == \E p \in Callers : lookup[p].pc = "fetch" /\ lookup'[p].pc = "idle"

\* The step starts a lookup that the credential flag or the budget refuses.
RefusedByGates ==
    /\ \A p \in Callers : lookup[p].pc = "idle"
    /\ answered' # answered
    /\ ~env.TWITTER_BEARER_TOKEN \/ ~BudgetOpen

\* C33: the daily read counter goes up by exactly 1 at the return of a search
\* that got an OK response whose body parsed, and is left as it was by a search
\* that failed (non-OK status, thrown error, unparsable body) and by a lookup the
\* gates refuse; issuing the fetch counts nothing, so failed calls can follow
\* each other without the counter moving.
C33_CounterCountsSuccessfulSearches ==
    [][/\ ReturnsSearch =>
            \A p \in Callers, r \in ConfirmResponses \cup NewsResponses :
               (ConfirmResume(p, r) \/ NewsResume(p, r)) =>
                  IF r.kind = "ok"
                  THEN DailyReadsAfter = DailyReads + 1
                  ELSE /\ DailyReadsAfter = DailyReads
                       /\ state' = state
       /\ RefusedByGates => DailyReadsAfter = DailyReads /\ ~IssuesSearch
       /\ IssuesSearch =>
            DailyReadsAfter = IF now - DailyReadReset > 86400000
                              THEN 0 ELSE DailyReads]_vars

\* With 199 reads counted a search failed, and the next fetch is in flight with
\* 199 reads still counted.
C33_Witness ==
    /\ DailyReads = 199
    /\ answered.exit = "no_tweets"
    /\ \E p \in Callers : lookup[p].pc = "fetch"

----------------------------------------------------------------------------
(* Claims about the cash the entries commit *)

\* A notional in ten-thousandths; the denominators are 1 and 10000.
TenThousandths(notional) == notional[1] * (10000 \div notional[2])

RECURSIVE SumNotionals(_)
\* The sum of the notionals of a list of BuyCandidates, in ten-thousandths.
SumNotionals(cands) ==
    IF cands = << >> THEN 0
    ELSE TenThousandths(Head(cands).notional) + SumNotionals(Tail(cands))

\* C34: with confidences in [0, 1] and non-negative cash the notionals of the
\* BuyCandidates one selectEntries call returns sum to at most account.cash:
\* there are at most 3, each at most 20% of cash.
C34_NotionalsWithinCash ==
    (/\ rules.pc = "done"
     /\ account.cash >= 0
     /\ \A i \in 1..Len(research) :
           research[i].confidence >= 0 /\ research[i].confidence <= 100)
    => /\ SumNotionals(candidates) <= account.cash * 10000
       /\ Len(candidates) <= 3
       /\ \A i \in 1..Len(candidates) :
             5 * TenThousandths(candidates[i].notional) <= account.cash * 10000

\* Three candidates at confidence 0.9 on a cash of 600 with a configured size of
\* 50%: 108 each, 324 in all.
C34_Witness ==
    /\ rules.pc = "done"
    /\ account.cash = 600
    /\ config.position_size_pct_of_cash = 50
    /\ Len(candidates) = 3
    /\ \A i \in 1..3 : candidates[i].notional = <<1080000, 10000>>
    /\ SumNotionals(candidates) = 3240000

----------------------------------------------------------------------------
(* Claims about symbols researched more than once *)

\* C35: selectEntries never returns two BuyCandidates with the same symbol, even
\* when the research list names a symbol more than once.
C35_NoTwoCandidatesSameSymbol ==
    rules.pc = "done" =>
        \A k, l \in 1..Len(candidates) :
            k # l => candidates[k].symbol # candidates[l].symbol

----------------------------------------------------------------------------
(* Claims about option positions *)

\* The price an option's P&L is measured from, and the P&L in per cent compared
\* with a bound (0 when there is no positive entry price).
OptionEntryPrice(pos) ==
    IF pos.avg_entry_price # 0 THEN pos.avg_entry_price ELSE pos.current_price
OptionPlAtMost(pos, bound) ==
    IF OptionEntryPrice(pos) > 0
    THEN (pos.current_price - OptionEntryPrice(pos)) * 100 <= bound * OptionEntryPrice(pos)
    ELSE 0 <= bound
OptionPlAtLeast(pos, bound) ==
    IF OptionEntryPrice(pos) > 0
    THEN (pos.current_price - OptionEntryPrice(pos)) * 100 >= bound * OptionEntryPrice(pos)
    ELSE 0 >= bound

\* The symbols the stalenessAnalysis entry of the store has a result for.
StalenessAnalysed == DOMAIN StateGet(state, "stalenessAnalysis", << >>)

\* C36: a position of asset class us_option is evaluated by the options rule
\* alone and never reaches take-profit, stop-loss or staleness: with options
\* disabled it gives no SellCandidate, with options enabled at most one, the
\* options stop-loss being checked before the options take-profit.
C36_OptionsRuleOnly ==
    (rules.pc = "done" /\ rules.staleness = << >>) =>
        \A i \in 1..Len(positions) :
            LET pos == positions[i]
                mine == ExitsFor(pos.symbol)
            IN (IsOption(pos) /\ Cardinality(Held(pos.symbol)) = 1) =>
                 /\ pos.symbol \notin StalenessAnalysed
                 /\ mine = IF ~config.options_enabled
                           THEN << >>
                           ELSE IF OptionPlAtMost(pos, -config.options_stop_loss_pct)
                           THEN <<SellCandidate(pos.symbol, "Options stop loss")>>
                           ELSE IF OptionPlAtLeast(pos, config.options_take_profit_pct)
                           THEN <<SellCandidate(pos.symbol, "Options take profit")>>
                           ELSE << >>

\* An option at +100% under an options stop-loss of -100% and an options
\* take-profit of 100% gave the options stop-loss candidate alone, with an
\* equity P&L of +10% that the take-profit of 10% would have matched.
C36_Witness ==
    /\ rules.pc = "done"
    /\ config.options_enabled
    /\ config.options_stop_loss_pct = -100
    /\ Len(positions) = 1
    /\ IsOption(positions[1])
    /\ positions[1].current_price = 200
    /\ positions[1].avg_entry_price = 100
    /\ PlPctGeq(positions[1], config.take_profit_pct)
    /\ rules.exits = <<SellCandidate(positions[1].symbol, "Options stop loss")>>

\* The crypto positions runCryptoTrading starts from.
StartCryptoPositions == CryptoPositionsOf(positions, config)

\* The sells of one invocation: at most one per held crypto position, for the
\* take-profit when the gain reaches it and for the stop-loss only otherwise.
CryptoSellsBounded ==
    /\ \A i, j \in 1..Len(trading.sells) :
          trading.sells[i].position = trading.sells[j].position => i = j
    /\ \A i \in 1..Len(trading.sells) :
          LET pos == StartCryptoPositions[trading.sells[i].position]
          IN /\ pos.symbol = trading.sells[i].symbol
             /\ IF PlPctGeq(pos, config.crypto_take_profit_pct)
                THEN trading.sells[i].reason = "Crypto take profit"
                ELSE /\ PlPctLeq(pos, -config.crypto_stop_loss_pct)
                     /\ trading.sells[i].reason = "Crypto stop loss"

\* The buys of one invocation: at most one filled, none of a symbol held at the
\* start, none with the position count at the maximum.
CryptoBuysBounded ==
    /\ \A i, j \in 1..Len(trading.buys) :
          trading.buys[i].filled /\ trading.buys[j].filled => i = j
    /\ \A i \in 1..Len(trading.buys) :
          /\ \A k \in 1..Len(StartCryptoPositions) :
                StartCryptoPositions[k].symbol # trading.buys[i].symbol
          /\ trading.buys[i].count < MaxCryptoPositions(config)
          /\ Len(StartCryptoPositions) < MaxCryptoPositions(config)

\* The research behind a buy is a BUY verdict that was cached at most 300 s ago
\* or obtained in this invocation.
CryptoBuysOnFreshBuyVerdict ==
    \A i \in 1..Len(trading.buys) :
       LET b == trading.buys[i]
       IN /\ b.research.verdict = "BUY"
          /\ IF b.fromCache
             THEN now - b.research.timestamp <= CRYPTO_RESEARCH_TTL_MS
             ELSE b.research.timestamp = now

\* The research behind a buy has a confidence of min_analyst_confidence or more.
CryptoBuysOnConfidence ==
    \A i \in 1..Len(trading.buys) :
       /\ trading.buys[i].research.confidence # << >>
       /\ trading.buys[i].research.confidence[1] >= config.min_analyst_confidence

\* What holds of every invocation of runCryptoTrading.
CryptoTradingBounded ==
    CryptoSellsBounded /\ CryptoBuysBounded /\ CryptoBuysOnFreshBuyVerdict

\* C37: one runCryptoTrading invocation issues at most one sell per held crypto
\* position, take-profit before stop-loss, and at most one successful buy; it
\* never buys a symbol held at the start, never buys with the crypto position
\* count at min(configured symbols or 3, 3), and buys only on a fresh BUY
\* verdict whose confidence is min_analyst_confidence or more.
C37_CryptoTradingBoundedAndConfident ==
    CryptoTradingBounded /\ CryptoBuysOnConfidence

\* A buy placed on a cached BUY verdict that carries no confidence.
C37_BuyWithoutConfidence ==
    \E i \in 1..Len(trading.buys) :
       /\ trading.buys[i].research.verdict = "BUY"
       /\ trading.buys[i].research.confidence = << >>
       /\ trading.buys[i].size = << >>

\* Both exits and a filled buy in one invocation.
CryptoTradingExercised ==
    /\ Len(trading.sells) = 2
    /\ trading.sells[1].reason # trading.sells[2].reason
    /\ \E i \in 1..Len(trading.buys) : trading.buys[i].filled

\* A filled buy on a confident BUY verdict read from the cache.
CryptoBuyFromCache ==
    \E i \in 1..Len(trading.buys) :
       /\ trading.buys[i].fromCache /\ trading.buys[i].filled
       /\ trading.buys[i].research.confidence = <<90>>

\* The path lies under /mcp or under /agent.
UnderMcpOrAgent(pathname) ==
    StartsWith(pathname, McpPrefix) \/ StartsWith(pathname, AgentPrefix)

\* The request carries "Authorization: Bearer <token>" for the token configured.
CarriesToken(authHeader, token) ==
    /\ token # << >>
    /\ authHeader = <<BearerPrefix \o token[1]>>

\* C38: a request under /mcp or /agent is forwarded to the MCP agent or to the
\* harness only if its Authorization header is "Bearer " followed by
\* MAHORAGA_API_TOKEN; without it the response is 401, nothing is forwarded and
\* no request is counted; with the token unset every such request gets 401; a
\* rate-limited /agent request gets 429, is not counted and is not forwarded.
C38_ForwardedOnlyWithToken ==
    [][worker.pc = "serving" =>
          \A pathname \in Pathnames, authHeader \in AuthHeaders, allowed \in BOOLEAN :
             Fetch(pathname, authHeader, allowed) /\ UnderMcpOrAgent(pathname) =>
                /\ worker'.response.to # "none" => CarriesToken(authHeader, worker.token)
                /\ ~CarriesToken(authHeader, worker.token) =>
                      /\ worker'.response = Response(401, "none", << >>)
                      /\ worker'.requests = worker.requests
                /\ worker.token = << >> => worker'.response.status = 401
                /\ /\ StartsWith(pathname, AgentPrefix)
                   /\ worker'.response.status # 401
                   /\ ~allowed
                   => /\ worker'.response = Response(429, "none", << >>)
                      /\ worker'.requests = worker.requests
                /\ worker'.response.to = "mcp" => StartsWith(pathname, McpPrefix)
                /\ worker'.response.to = "harness" =>
                      /\ StartsWith(pathname, AgentPrefix)
                      /\ allowed]_vars

\* A rate-limited /agent request answered with 429 after an earlier request with
\* the token went through to the harness and was counted.
C38_Witness ==
    /\ worker.pc = "serving"
    /\ worker.served = 2
    /\ StartsWith(worker.request.pathname, AgentPrefix)
    /\ CarriesToken(worker.request.authHeader, worker.token)
    /\ ~worker.request.allowed
    /\ worker.response.status = 429
    /\ worker.requests = MapSet(<< >>, RateKey(worker.request.authHeader), 1)

\* A request under /mcp with a prefix of the token as its bearer, refused.
WorkerRefusesTokenPrefix ==
    /\ worker.pc = "serving"
    /\ worker.token = <<ApiToken>>
    /\ worker.request.authHeader = <<BearerPrefix \o <<"t", "o">> >>
    /\ StartsWith(worker.request.pathname, McpPrefix)
    /\ worker.response.status = 401

====
